---- MODULE Spec2Model ----
(***************************************************************************)
(* A model of the r53 DNS library: the presentation parser and printer of  *)
(* domain names, the wire decoder of names with compression pointers, the  *)
(* name algebra and comparison, and the section/message codec.             *)
(*                                                                         *)
(* Rust vectors are indexed from 0; sequences here are indexed from 1, so  *)
(* At(s, i) reads s[i] of the source.  A panic (failed assert!, index out  *)
(* of range, overflow in a build with overflow checks) is the result kind  *)
(* "Panic".  Arithmetic on u8 and i8 overflows differently in the two      *)
(* builds of the crate: overflow_checks = TRUE is the build that panics,   *)
(* overflow_checks = FALSE the build that wraps.                           *)
(***************************************************************************)
EXTENDS Integers, Sequences, FiniteSets, TLC

VARIABLES
    pc,               \* position of the driver: which call has been made
    overflow_checks,  \* the build: TRUE panics on overflow, FALSE wraps
    text,             \* a presentation string (bytes), input of Name::new
    name_a,           \* a Name operand (self)
    name_b,           \* a Name operand (other / parent / suffix)
    name_c,           \* a third Name operand
    sp,               \* the locals of string_parse while it runs
    inbuf,              \* the bytes of the input buffer of Name::from_wire
    fw,               \* the locals of Name::from_wire and the buffer position
    ptrs,             \* history: the pointer targets this decode has followed
    call,             \* the operation of the name algebra called, with its arguments
    msg,              \* a Message
    wire,             \* the records a renderer has written
    slice,            \* a LabelSlice: a view of labels first_label..last_label of a name
    seq,              \* a LabelSequence: owned label data and offsets
    ret               \* the value returned by the last call

vars == <<pc, overflow_checks, text, name_a, name_b, name_c, sp, inbuf, fw, ptrs, call, msg, wire,
          slice, seq, ret>>

----------------------------------------------------------------------------
(* Program constants, src/src/name.rs:20-23 *)
MAX_WIRE_LEN == 255
MAX_LABEL_COUNT == 128
MAX_LABEL_LEN == 63
COMPRESS_POINTER_MARK8 == 192

(* Characters the code names as literals *)
CH_DOT == 46
CH_AT == 64
CH_BACKSLASH == 92
CH_LBRACKET == 91
CH_ZERO == 48
CH_NINE == 57
CH_SPACE == 32
CH_DEL == 127

Byte == 0 .. 255

At(s, i) == s[i + 1]
SetAt(s, i, v) == [s EXCEPT ![i + 1] = v]
Last(s) == s[Len(s)]
U8(x) == x % 256
Min(a, b) == IF a < b THEN a ELSE b

(* name.rs is_digit *)
is_digit(c) == c >= CH_ZERO /\ c <= CH_NINE

(* name.rs DIGITAL_VALUES / digitvalue: hexadecimal digit value or -1 *)
digitvalue(c) ==
    IF c >= 48 /\ c <= 57 THEN c - 48
    ELSE IF c >= 65 /\ c <= 70 THEN c - 55
    ELSE IF c >= 97 /\ c <= 102 THEN c - 87
    ELSE -1

(* name.rs MAP_TO_LOWER / lower_caes: A-Z to a-z, every other byte itself *)
lower_caes(c) == IF c >= 65 /\ c <= 90 THEN c + 32 ELSE c

(* u8::eq_ignore_ascii_case of the standard library *)
eq_ignore_ascii_case(x, y) ==
    (IF x >= 65 /\ x <= 90 THEN x + 32 ELSE x) = (IF y >= 65 /\ y <= 90 THEN y + 32 ELSE y)

----------------------------------------------------------------------------
(* Results.  Every result is a record with the same fields so that results *)
(* of different kinds can be compared.                                     *)
NoName == [raw |-> <<>>, offsets |-> <<>>, length |-> 0, label_count |-> 0]
Ok(n) == [kind |-> "Ok", err |-> "", name |-> n]
Err(e) == [kind |-> "Err", err |-> e, name |-> NoName]
Panic(w) == [kind |-> "Panic", err |-> w, name |-> NoName]
NoRet == [kind |-> "None", err |-> "", name |-> NoName]

(* name.rs root() *)
root == [raw |-> <<0>>, offsets |-> <<0>>, length |-> 1, label_count |-> 1]

----------------------------------------------------------------------------
(* string_parse, name.rs:118-250.  ParseEnter is the state before the      *)
(* loop, ParseIter one iteration of the loop, ParseExit the code after it. *)
(* ctl is "cont" while the loop runs, "break" after a break, and "ret"     *)
(* after a return Err inside the loop (err holds the error).               *)
ParseEnter(start_pos) ==
    [start |-> start_pos, data |-> <<>>, offsets |-> <<0>>, count |-> 0,
     digits |-> 0, value |-> 0, done |-> FALSE, is_root |-> FALSE,
     state |-> "Init", next_u8 |-> TRUE, c |-> 0, ctl |-> "cont", err |-> ""]

ParseFail(p, e) == [p EXCEPT !.ctl = "ret", !.err = e]

ParseInit(p, end) ==
    IF p.c = CH_DOT /\ p.start # end THEN ParseFail(p, "NoneTerminateLabel")
    ELSE IF p.c = CH_DOT \/ (p.c = CH_AT /\ p.start = end)
         THEN [p EXCEPT !.is_root = TRUE, !.data = Append(p.data, 0),
                        !.done = TRUE, !.ctl = "break"]
         ELSE [p EXCEPT !.state = "Start", !.next_u8 = FALSE]

ParseStart(p) ==
    LET q == [p EXCEPT !.data = Append(p.data, 0), !.count = 0]
    IN IF p.c = CH_BACKSLASH
       THEN [q EXCEPT !.state = "Initialescape", !.ctl = "break"]
       ELSE [q EXCEPT !.state = "Ordinary", !.next_u8 = FALSE]

ParseOrdinary(p, end) ==
    IF p.c = CH_DOT THEN
        IF p.count = 0 THEN ParseFail(p, "DuplicatePeriod")
        ELSE LET d1 == SetAt(p.data, Last(p.offsets), p.count)
                 o1 == Append(p.offsets, U8(Len(d1)))
             IN IF p.start = end
                THEN [p EXCEPT !.data = Append(d1, 0), !.offsets = o1,
                               !.done = TRUE, !.state = "Start", !.next_u8 = TRUE]
                ELSE [p EXCEPT !.data = d1, !.offsets = o1,
                               !.state = "Start", !.next_u8 = TRUE]
    ELSE IF p.c = CH_BACKSLASH THEN [p EXCEPT !.state = "Escape", !.next_u8 = TRUE]
    ELSE IF p.count + 1 > MAX_LABEL_LEN THEN ParseFail(p, "TooLongLabel")
    ELSE [p EXCEPT !.count = p.count + 1, !.data = Append(p.data, p.c),
                   !.next_u8 = TRUE]

ParseInitialescape(p) ==
    IF p.c = CH_LBRACKET THEN ParseFail(p, "InvalidLabelCharacter")
    ELSE [p EXCEPT !.state = "Escape", !.next_u8 = FALSE]

ParseEscape(p) ==
    IF ~is_digit(p.c) THEN
        IF p.count + 1 > MAX_LABEL_LEN THEN ParseFail(p, "TooLongLabel")
        ELSE [p EXCEPT !.count = p.count + 1, !.data = Append(p.data, p.c),
                       !.state = "Ordinary", !.ctl = "break"]
    ELSE [p EXCEPT !.digits = 0, !.value = 0, !.state = "Escdecimal",
                   !.next_u8 = FALSE]

ParseEscdecimal(p) ==
    IF ~is_digit(p.c) THEN ParseFail(p, "InvalidDecimalFormat")
    ELSE LET v == p.value * 10 + digitvalue(p.c)
             q == [p EXCEPT !.value = v, !.digits = p.digits + 1, !.next_u8 = TRUE]
         IN IF q.digits = 3 THEN
                IF v > 255 THEN ParseFail(q, "InvalidDecimalFormat")
                ELSE IF p.count + 1 > MAX_LABEL_LEN THEN ParseFail(q, "TooLongLabel")
                ELSE [q EXCEPT !.count = p.count + 1, !.data = Append(p.data, p.c),
                               !.state = "Ordinary"]
            ELSE q

ParseIter(name_raw, end, p) ==
    LET stop == p.next_u8 /\ (Len(p.data) >= MAX_WIRE_LEN \/ p.start = end \/ p.done)
        q == IF p.next_u8 /\ ~stop
             THEN [p EXCEPT !.c = At(name_raw, p.start), !.start = p.start + 1]
             ELSE p
    IN IF stop THEN [p EXCEPT !.ctl = "break"]
       ELSE CASE q.state = "Init" -> ParseInit(q, end)
              [] q.state = "Start" -> ParseStart(q)
              [] q.state = "Ordinary" -> ParseOrdinary(q, end)
              [] q.state = "Initialescape" -> ParseInitialescape(q)
              [] q.state = "Escape" -> ParseEscape(q)
              [] q.state = "Escdecimal" -> ParseEscdecimal(q)

RECURSIVE ParseLoop(_, _, _)
ParseLoop(name_raw, end, p) ==
    IF p.ctl # "cont" THEN p ELSE ParseLoop(name_raw, end, ParseIter(name_raw, end, p))

(* The exit code without the branch that closes an unterminated label *)
ParseExit_unclosed(p, end) ==
    IF p.ctl = "ret" THEN [kind |-> "Err", err |-> p.err, data |-> <<>>, offsets |-> <<>>]
    ELSE IF p.done THEN [kind |-> "Ok", err |-> "", data |-> p.data, offsets |-> p.offsets]
    ELSE IF Len(p.data) = MAX_WIRE_LEN
         THEN [kind |-> "Err", err |-> "TooLongName", data |-> <<>>, offsets |-> <<>>]
    ELSE [kind |-> "Err", err |-> "InCompleteName", data |-> <<>>, offsets |-> <<>>]

ParseExit(p, end) ==
    IF p.ctl = "ret" THEN [kind |-> "Err", err |-> p.err, data |-> <<>>, offsets |-> <<>>]
    ELSE IF p.done THEN [kind |-> "Ok", err |-> "", data |-> p.data, offsets |-> p.offsets]
    ELSE IF Len(p.data) = MAX_WIRE_LEN
         THEN [kind |-> "Err", err |-> "TooLongName", data |-> <<>>, offsets |-> <<>>]
    ELSE IF p.start # end
         THEN [kind |-> "Panic", err |-> "assert start == end", data |-> <<>>, offsets |-> <<>>]
    ELSE IF p.state # "Ordinary"
         THEN [kind |-> "Err", err |-> "InCompleteName", data |-> <<>>, offsets |-> <<>>]
    ELSE IF p.count = 0
         THEN [kind |-> "Panic", err |-> "assert count != 0", data |-> <<>>, offsets |-> <<>>]
    ELSE LET d1 == SetAt(p.data, Last(p.offsets), p.count)
         IN [kind |-> "Ok", err |-> "", data |-> Append(d1, 0),
             offsets |-> Append(p.offsets, U8(Len(d1)))]

string_parse(name_raw, start_pos, end) ==
    ParseExit(ParseLoop(name_raw, end, ParseEnter(start_pos)), end)

(* Name::new, name.rs:253-264 *)
NameOfParse(r) ==
    IF r.kind = "Ok"
    THEN Ok([raw |-> r.data, offsets |-> r.offsets,
             length |-> U8(Len(r.data)), label_count |-> U8(Len(r.offsets))])
    ELSE [kind |-> r.kind, err |-> r.err, name |-> NoName]

Name_new(name) == NameOfParse(string_parse(name, 0, Len(name)))

----------------------------------------------------------------------------
(* Name::to_string, name.rs:365-401 *)
special_char == {34, 40, 41, 46, 59, 92, 64, 36}

ToStringByte(c) ==
    IF c \in special_char THEN <<CH_BACKSLASH, c>>
    ELSE IF c > CH_SPACE /\ c < CH_DEL THEN <<c>>
    ELSE <<CH_BACKSLASH, CH_ZERO + ((c \div 100) % 10), CH_ZERO + ((c \div 10) % 10),
           CH_ZERO + (c % 10)>>

RECURSIVE ToStringLabel(_, _, _, _)
ToStringLabel(self, i, count, buf) ==
    IF count = 0 THEN [i |-> i, buf |-> buf]
    ELSE ToStringLabel(self, i + 1, count - 1, buf \o ToStringByte(At(self.raw, i)))

RECURSIVE ToStringLoop(_, _, _)
ToStringLoop(self, i, buf) ==
    IF ~(i < self.length) THEN buf
    ELSE LET count == At(self.raw, i)
         IN IF count = 0 THEN Append(buf, CH_DOT)
            ELSE LET b1 == IF buf # <<>> THEN Append(buf, CH_DOT) ELSE buf
                     r == ToStringLabel(self, i + 1, count, b1)
                 IN ToStringLoop(self, r.i, r.buf)

to_string(self) == ToStringLoop(self, 0, <<>>)

----------------------------------------------------------------------------
(* impl PartialEq for Name, name.rs:692-722.  EqLabel is the inner loop    *)
(* over the bytes of one label (result: the position after the label, or   *)
(* -1 when two bytes differ), EqLoop the outer loop over the labels.       *)
RECURSIVE EqLabel(_, _, _, _)
EqLabel(self, other, pos, count) ==
    IF count = 0 THEN pos
    ELSE IF lower_caes(At(self.raw, pos)) # lower_caes(At(other.raw, pos)) THEN -1
    ELSE EqLabel(self, other, pos + 1, count - 1)

RECURSIVE EqLoop(_, _, _, _)
EqLoop(self, other, pos, l) ==
    IF l = 0 THEN TRUE
    ELSE LET count == At(self.raw, pos)
         IN IF count # At(other.raw, pos) THEN FALSE
            ELSE LET pos1 == EqLabel(self, other, pos + 1, count)
                 IN IF pos1 = -1 THEN FALSE ELSE EqLoop(self, other, pos1, l - 1)

Name_eq(self, other) ==
    IF self.length # other.length \/ self.label_count # other.label_count THEN FALSE
    ELSE EqLoop(self, other, 0, self.label_count)

(* impl Hash for Name, name.rs:745-751: the bytes written to the hasher *)
Name_hash_raw(self) == self.raw
Name_hash(self) == [i \in 1 .. Len(self.raw) |-> lower_caes(self.raw[i])]

----------------------------------------------------------------------------
(* Name::from_wire, name.rs:266-343.  FwEnter is the state before the      *)
(* loop, FwIter one iteration, FwExit the code after the loop.  bufpos is  *)
(* the position of the InputBuffer: read_u8 returns the byte there and     *)
(* moves it on by one, set_position moves it.                              *)
FwEnter(position) ==
    [n |-> 0, nused |-> 0, cused |-> 0, done |-> FALSE, data |-> <<>>,
     offsets |-> <<>>, seen_pointer |-> FALSE, state |-> "Start",
     current |-> position, pos_beg |-> position, biggest_pointer |-> position,
     new_current |-> 0, bufpos |-> position, ctl |-> "cont", err |-> ""]

FwFail(f, e) == [f EXCEPT !.ctl = "ret", !.err = e]

FwStart(f, c) ==
    IF c <= MAX_LABEL_LEN THEN
        IF f.nused + c + 1 > MAX_WIRE_LEN
        THEN FwFail([f EXCEPT !.offsets = Append(f.offsets, U8(f.nused))], "TooLongName")
        ELSE [f EXCEPT !.offsets = Append(f.offsets, U8(f.nused)),
                       !.nused = f.nused + c + 1,
                       !.data = Append(f.data, c),
                       !.done = (c = 0),
                       !.n = c,
                       !.state = "Ordinary"]
    ELSE IF c >= COMPRESS_POINTER_MARK8
         THEN [f EXCEPT !.new_current = c - COMPRESS_POINTER_MARK8, !.n = 1,
                        !.state = "NewCurrent"]
         ELSE FwFail(f, "InvalidLabelCharacter")

FwOrdinary(f, c) ==
    [f EXCEPT !.data = Append(f.data, c), !.n = f.n - 1,
              !.state = IF f.n - 1 = 0 THEN "Start" ELSE "Ordinary"]

FwNewCurrent_self(f, c) ==
    LET nc == f.new_current * 256 + c
    IN IF f.n - 1 # 0 THEN [f EXCEPT !.new_current = nc, !.n = f.n - 1, !.ctl = "break"]
       ELSE IF nc > f.biggest_pointer
            THEN FwFail([f EXCEPT !.new_current = nc, !.n = f.n - 1], "BadCompressPointer")
            ELSE [f EXCEPT !.new_current = nc, !.n = f.n - 1, !.biggest_pointer = nc,
                           !.current = nc, !.bufpos = nc, !.seen_pointer = TRUE,
                           !.state = "Start"]

FwNewCurrent(f, c) ==
    LET nc == f.new_current * 256 + c
    IN IF f.n - 1 # 0 THEN [f EXCEPT !.new_current = nc, !.n = f.n - 1, !.ctl = "break"]
       ELSE IF nc >= f.biggest_pointer
            THEN FwFail([f EXCEPT !.new_current = nc, !.n = f.n - 1], "BadCompressPointer")
            ELSE [f EXCEPT !.new_current = nc, !.n = f.n - 1, !.biggest_pointer = nc,
                           !.current = nc, !.bufpos = nc, !.seen_pointer = TRUE,
                           !.state = "Start"]

FwIter(b, f) ==
    IF ~(f.current < Len(b) /\ ~f.done) THEN [f EXCEPT !.ctl = "break"]
    ELSE IF ~(f.bufpos < Len(b)) THEN FwFail(f, "InCompleteWire")
    ELSE LET c == At(b, f.bufpos)
             g == [f EXCEPT !.bufpos = f.bufpos + 1, !.current = f.current + 1,
                            !.cused = IF f.seen_pointer THEN f.cused ELSE f.cused + 1]
         IN CASE g.state = "Start" -> FwStart(g, c)
              [] g.state = "Ordinary" -> FwOrdinary(g, c)
              [] g.state = "NewCurrent" -> FwNewCurrent(g, c)

FwExit(f) ==
    IF f.ctl = "ret" THEN Err(f.err)
    ELSE IF ~f.done THEN Err("InCompleteName")
    ELSE Ok([raw |-> f.data, offsets |-> f.offsets,
             length |-> U8(Len(f.data)), label_count |-> U8(Len(f.offsets))])

(* The position left behind when every byte read is counted, also the     *)
(* bytes read after a pointer                                              *)
FwExitPosition_last_read(f) == f.bufpos

(* The buffer position from_wire leaves behind on success *)
FwExitPosition(f) == IF f.ctl = "break" /\ f.done THEN f.pos_beg + f.cused ELSE f.bufpos

----------------------------------------------------------------------------
(* Signed bytes.  AsI8 is the cast `as i8`; I8Sub is the subtraction of    *)
(* two i8 values: out of range it panics in the build with overflow checks *)
(* and wraps in the other.                                                 *)
AsI8(x) == IF x % 256 >= 128 THEN (x % 256) - 256 ELSE x % 256
I8Fits(d) == d >= -128 /\ d <= 127

(* LabelSlice::from_name, label_slice.rs:16-23 *)
from_name(name) ==
    [data |-> name.raw, offsets |-> name.offsets, first_label |-> 0,
     last_label |-> name.label_count - 1]

(* LabelSlice::get_label_count, label_slice.rs:77-79 *)
get_label_count(ls) == ls.last_label - ls.first_label + 1

(* No view, no sequence *)
NoSlice == [data |-> <<>>, offsets |-> <<>>, first_label |-> 0, last_label |-> 0]
NoSeq == [data |-> <<>>, offsets |-> <<>>]

(* LabelSlice getters, label_slice.rs:47-59.  A getter returns            *)
(* [kind, val]: kind is "Panic" when a u8 sum overflows in the build with  *)
(* overflow checks or a slice bound lies outside the data.                 *)
Val(v) == [kind |-> "Ok", val |-> v]
NoVal == [kind |-> "Panic", val |-> <<>>]

get_offsets(self) ==
    IF self.last_label + 1 > Len(self.offsets) \/ self.first_label > self.last_label + 1
    THEN NoVal
    ELSE Val(SubSeq(self.offsets, self.first_label + 1, self.last_label + 1))

get_data_length(self, checks) ==
    LET last_label_len == At(self.data, At(self.offsets, self.last_label))
        diff == At(self.offsets, self.last_label) - At(self.offsets, self.first_label)
        sum == U8(diff) + last_label_len
    IN IF checks /\ (diff < 0 \/ sum > 255) THEN NoVal ELSE Val(U8(sum))

get_data(self, checks) ==
    LET first_label_index == At(self.offsets, self.first_label)
        n == get_data_length(self, checks)
    IN IF n.kind = "Panic" THEN NoVal
       ELSE IF first_label_index + n.val + 1 > Len(self.data) THEN NoVal
       ELSE Val(SubSeq(self.data, first_label_index + 1, first_label_index + n.val + 1))

(* LabelSlice::equals, label_slice.rs:61-75: in the case-insensitive       *)
(* branch the value of data.eq_ignore_ascii_case(other_data) is dropped    *)
(* (the statement ends with a semicolon) and the function goes on to true  *)
equals(self, other, case_sensitive, checks) ==
    LET data == get_data(self, checks)
        other_data == get_data(other, checks)
    IN IF data.kind = "Panic" \/ other_data.kind = "Panic" THEN NoVal
       ELSE IF Len(data.val) # Len(other_data.val) THEN Val(FALSE)
       ELSE IF case_sensitive THEN Val(data.val = other_data.val)
       ELSE Val(TRUE)

(* LabelSlice::strip_left and strip_right, label_slice.rs:158-166; the     *)
(* result is the view after the call, or a panic on the failed assert      *)
LabelSlice_strip_left(self, index) ==
    IF ~(index < get_label_count(self)) THEN NoVal
    ELSE Val([self EXCEPT !.first_label = self.first_label + index])

(* strip_right without the assert that keeps the range non-empty *)
LabelSlice_strip_right_unchecked(self, index) ==
    Val([self EXCEPT !.last_label = self.last_label - index])

LabelSlice_strip_right(self, index) ==
    IF ~(index < get_label_count(self)) THEN NoVal
    ELSE Val([self EXCEPT !.last_label = self.last_label - index])

(* LabelSlice::into_label_sequence, label_slice.rs:34-45 *)
into_label_sequence(self, checks) ==
    LET data == get_data(self, checks).val
        offsets == get_offsets(self).val
        curr_label_value == At(self.offsets, self.first_label)
    IN IF self.first_label = 0 THEN [data |-> data, offsets |-> offsets]
       ELSE [data |-> data,
             offsets |-> [i \in 1 .. Len(offsets) |-> offsets[i] - curr_label_value]]

(* Results of the LabelSequence operations: the sequence returned and the  *)
(* sequence left in self                                                   *)
SeqOk(q, rest) == [kind |-> "Ok", err |-> "", seq |-> q, rest |-> rest, name |-> NoName]
SeqErr(e, rest) == [kind |-> "Err", err |-> e, seq |-> NoSeq, rest |-> rest, name |-> NoName]
SeqPanic(w, rest) == [kind |-> "Panic", err |-> w, seq |-> NoSeq, rest |-> rest, name |-> NoName]

(* Vec::drain(lo..hi): the vector without its elements lo .. hi-1 *)
Drained(v, lo, hi) == SubSeq(v, 1, lo) \o SubSeq(v, hi + 1, Len(v))

(* split that leaves the offsets behind the range where they were *)
LabelSequence_split_unrebased(self, start_label, label_count_, checks) ==
    LET max_label_count == Len(self.offsets)
        label_count == IF start_label + label_count_ > max_label_count
                       THEN max_label_count - start_label ELSE label_count_
        last_label == start_label + label_count - 1
        data_length == At(self.offsets, last_label) + At(self.data, At(self.offsets, last_label)) + 1
        first == At(self.offsets, start_label)
        offsets == SubSeq(self.offsets, start_label + 1, last_label + 1)
    IN IF start_label >= max_label_count \/ label_count_ = 0
       THEN SeqErr("InvalidLabelIndex", self)
       ELSE SeqOk([data |-> SubSeq(self.data, first + 1, data_length),
                   offsets |-> [i \in 1 .. Len(offsets) |-> offsets[i] - offsets[1]]],
                  [data |-> Drained(self.data, first, data_length),
                   offsets |-> Drained(self.offsets, start_label, last_label + 1)])

(* LabelSequence::split, label_sequence.rs:48-88 *)
LabelSequence_split(self, start_label, label_count_, checks) ==
    LET max_label_count == Len(self.offsets)
        label_count == IF start_label + label_count_ > max_label_count
                       THEN max_label_count - start_label ELSE label_count_
        last_label == start_label + label_count - 1
        last_label_len == At(self.data, At(self.offsets, last_label)) + 1
        data_length == At(self.offsets, last_label) + last_label_len
        data_offset == U8(data_length) - At(self.offsets, start_label)
        first == At(self.offsets, start_label)
        data == SubSeq(self.data, first + 1, U8(data_length))
        offsets == SubSeq(self.offsets, start_label + 1, last_label + 1)
        left == Drained(self.offsets, start_label, last_label + 1)
        shifted == [i \in 1 .. Len(left) |->
                      IF start_label = 0 \/ i - 1 >= start_label
                      THEN left[i] - U8(data_offset) ELSE left[i]]
    IN IF start_label >= max_label_count \/ label_count_ = 0
       THEN SeqErr("InvalidLabelIndex", self)
       ELSE IF checks /\ (last_label_len > 255 \/ data_length > 255 \/ data_offset < 0
                          \/ \E i \in 1 .. Len(shifted) : shifted[i] < 0)
       THEN SeqPanic("attempt to add or subtract with overflow", self)
       ELSE IF first > U8(data_length) \/ U8(data_length) > Len(self.data)
       THEN SeqPanic("drain range out of bounds", self)
       ELSE SeqOk([data |-> data,
                   offsets |-> IF start_label = 0 THEN offsets
                               ELSE [i \in 1 .. Len(offsets) |-> U8(offsets[i] - offsets[1])]],
                  [data |-> Drained(self.data, first, U8(data_length)),
                   offsets |-> [i \in 1 .. Len(shifted) |-> U8(shifted[i])]])

(* Name::from_raw(data, offsets): the name of these vectors, its length    *)
(* and label_count their sizes                                             *)
from_raw(data, offsets) ==
    [raw |-> data, offsets |-> offsets, length |-> U8(Len(data)),
     label_count |-> U8(Len(offsets))]

(* LabelSequence::concat_all, label_sequence.rs:105-112: the data *)
RECURSIVE SeqConcatData(_, _, _)
SeqConcatData(suffixes, k, data) ==
    IF k > Len(suffixes) THEN data
    ELSE SeqConcatData(suffixes, k + 1, data \o suffixes[k].data)

(* label_sequence.rs:114-124: the offsets copied from the suffixes are     *)
(* overwritten one by one, each from the offset before it                  *)
RECURSIVE SeqConcatOffsets(_, _, _, _)
SeqConcatOffsets(data, offsets, i, st) ==
    IF i > Len(offsets) THEN st
    ELSE IF i - 1 < 1 \/ st.offsets[i - 1] + 1 > Len(data)
         THEN [st EXCEPT !.panic = TRUE]
    ELSE LET v == st.offsets[i - 1] + At(data, st.offsets[i - 1]) + 1
         IN SeqConcatOffsets(data, offsets, i + 1,
                [offsets |-> [st.offsets EXCEPT ![i] = U8(v)],
                 over |-> st.over \/ v > 255, panic |-> st.panic])

RECURSIVE SeqAllOffsets(_, _, _)
SeqAllOffsets(suffixes, k, offsets) ==
    IF k > Len(suffixes) THEN offsets
    ELSE SeqAllOffsets(suffixes, k + 1, offsets \o suffixes[k].offsets)

RECURSIVE SeqSum(_, _)
SeqSum(seqs, field) ==
    IF seqs = <<>> THEN 0 ELSE Len(Head(seqs)[field]) + SeqSum(Tail(seqs), field)

(* LabelSequence::concat_all, label_sequence.rs:90-127 *)
LabelSequence_concat_all(self, suffixes, checks) ==
    LET final_length == Len(self.data) + SeqSum(suffixes, "data")
        final_label_count == Len(self.offsets) + SeqSum(suffixes, "offsets")
        data == SeqConcatData(suffixes, 1, self.data)
        copied == SeqAllOffsets(suffixes, 1, self.offsets)
        off == SeqConcatOffsets(data, copied, Len(self.offsets) + 1,
                                [offsets |-> copied, over |-> FALSE, panic |-> FALSE])
    IN IF final_length > MAX_WIRE_LEN THEN Err("TooLongName")
       ELSE IF final_label_count > MAX_LABEL_COUNT THEN Err("TooLongLabel")
       ELSE IF off.panic THEN Panic("index out of bounds")
       ELSE IF checks /\ off.over THEN Panic("attempt to add with overflow")
       ELSE Ok(from_raw(data, off.offsets))

CmpResult(order, nlabels, relation) ==
    [kind |-> "Ok", order |-> order, common_label_count |-> nlabels, relation |-> relation]
CmpPanic == [kind |-> "Panic", order |-> 0, common_label_count |-> 0, relation |-> "None"]

(* LabelSlice::compare, label_slice.rs:103-130: the loop over the bytes of *)
(* one pair of labels.  The result is "same" when the first `count` bytes  *)
(* match, else the NameComparisonResult the loop returns.                  *)
CmpByteDiffers(label1, label2, case_sensitive) ==
    IF case_sensitive THEN label1 # label2 ELSE ~eq_ignore_ascii_case(label1, label2)

RECURSIVE CmpBytes(_, _, _, _, _, _, _, _)
CmpBytes(self, other, pos1, pos2, count, nlabels, case_sensitive, checks) ==
    IF count = 0 THEN [same |-> TRUE, res |-> CmpPanic]
    ELSE LET label1 == At(self.data, pos1)
             label2 == At(other.data, pos2)
         IN IF case_sensitive /\ checks /\ label1 < label2
            THEN [same |-> FALSE, res |-> CmpPanic]
            ELSE IF CmpByteDiffers(label1, label2, case_sensitive)
            THEN LET d == AsI8(label1) - AsI8(label2)
                 IN [same |-> FALSE,
                     res |-> IF ~I8Fits(d) /\ checks THEN CmpPanic
                             ELSE CmpResult(AsI8(d), nlabels,
                                            IF nlabels = 0 THEN "None" ELSE "CommonAncestor")]
            ELSE CmpBytes(self, other, pos1 + 1, pos2 + 1, count - 1, nlabels,
                          case_sensitive, checks)

(* LabelSlice::compare, label_slice.rs:88-143: the loop over the labels,   *)
(* from the last label of each view to the first.                          *)
RECURSIVE CmpLabels(_, _, _, _, _, _, _, _)
CmpLabels(self, other, l, l1, l2, nlabels, case_sensitive, checks) ==
    IF l = 0 THEN [same |-> TRUE, res |-> CmpPanic, nlabels |-> nlabels]
    ELSE LET pos1 == At(self.offsets, (l1 - 1) + self.first_label)
             pos2 == At(other.offsets, (l2 - 1) + other.first_label)
             count1 == At(self.data, pos1)
             count2 == At(other.data, pos2)
             cdiff == count1 - count2
             b == CmpBytes(self, other, pos1 + 1, pos2 + 1, Min(count1, count2),
                           nlabels, case_sensitive, checks)
         IN IF ~b.same THEN [same |-> FALSE, res |-> b.res, nlabels |-> nlabels]
            ELSE IF cdiff # 0
            THEN [same |-> FALSE,
                  res |-> CmpResult(AsI8(cdiff), nlabels,
                                    IF nlabels = 0 THEN "None" ELSE "CommonAncestor"),
                  nlabels |-> nlabels]
            ELSE CmpLabels(self, other, l - 1, l1 - 1, l2 - 1, nlabels + 1,
                           case_sensitive, checks)

(* LabelSlice::compare, label_slice.rs:81-156 *)
compare(self, other, case_sensitive, checks) ==
    LET l1 == get_label_count(self)
        l2 == get_label_count(other)
        ldiff == l1 - l2
        r == CmpLabels(self, other, Min(l1, l2), l1, l2, 0, case_sensitive, checks)
    IN IF ~r.same THEN r.res
       ELSE CmpResult(AsI8(ldiff), U8(r.nlabels),
                      IF ldiff < 0 THEN "SuperDomain"
                      ELSE IF ldiff > 0 THEN "SubDomain" ELSE "Equal")

(* Name::get_relation, name.rs:403-407 *)
get_relation(self, other, checks) == compare(from_name(self), from_name(other), FALSE, checks)

(* impl Ord for Name, name.rs:732-743 *)
Name_cmp(self, other, checks) ==
    LET relation == get_relation(self, other, checks)
    IN IF relation.kind = "Panic" THEN "Panic"
       ELSE IF relation.order < 0 THEN "Less"
       ELSE IF relation.order > 0 THEN "Greater"
       ELSE "Equal"

(* Name::is_subdomain, name.rs:637-654 *)
RECURSIVE SubdomainLoop(_, _, _, _)
SubdomainLoop(self, parent, i, j) ==
    IF ~(j > 0) THEN TRUE
    ELSE IF lower_caes(At(parent.raw, j)) # lower_caes(At(self.raw, i)) THEN FALSE
    ELSE SubdomainLoop(self, parent, i - 1, j - 1)

is_subdomain(self, parent) ==
    IF self.length < parent.length \/ self.label_count < parent.label_count THEN FALSE
    ELSE SubdomainLoop(self, parent, self.length - 1, parent.length - 1)

----------------------------------------------------------------------------
(* The name algebra, name.rs:409-617.  Every operation returns Ok(name),   *)
(* Err(error) or Panic(reason).                                            *)

(* concat_all, the two u8 sums of name.rs:410-416; over records that a sum *)
(* left the range of u8                                                    *)
RECURSIVE ConcatTotals(_, _, _)
ConcatTotals(suffixes, k, acc) ==
    IF k > Len(suffixes) THEN acc
    ELSE LET final_length == acc.final_length + (suffixes[k].length - 1)
             final_label_count == acc.final_label_count + (suffixes[k].label_count - 1)
         IN ConcatTotals(suffixes, k + 1,
                [final_length |-> U8(final_length),
                 final_label_count |-> U8(final_label_count),
                 over |-> acc.over \/ final_length > 255 \/ final_label_count > 255])

(* name.rs:424-429 *)
RECURSIVE ConcatRaw(_, _, _)
ConcatRaw(suffixes, k, raw) ==
    IF k > Len(suffixes) - 1 THEN raw \o suffixes[Len(suffixes)].raw
    ELSE ConcatRaw(suffixes, k + 1,
                   raw \o SubSeq(suffixes[k].raw, 1, suffixes[k].length - 1))

(* concat_all with the copied offsets left as they are in the suffix *)
RECURSIVE ConcatOffsets_unshifted(_, _, _)
ConcatOffsets_unshifted(suffixes, k, st) ==
    IF k > Len(suffixes) THEN st
    ELSE ConcatOffsets_unshifted(suffixes, k + 1,
            [offsets |-> st.offsets \o SubSeq(suffixes[k].offsets, 2, suffixes[k].label_count),
             copied_len |-> st.copied_len + suffixes[k].label_count - 1,
             over |-> st.over])

(* name.rs:431-441; the label counts of the names concatenated here sum to *)
(* less than 256, so copied_len itself stays within u8                     *)
RECURSIVE ConcatOffsets(_, _, _)
ConcatOffsets(suffixes, k, st) ==
    IF k > Len(suffixes) THEN st
    ELSE LET suffix == suffixes[k]
             last_offset == At(st.offsets, st.copied_len - 1)
             added == SubSeq(suffix.offsets, 2, suffix.label_count)
         IN ConcatOffsets(suffixes, k + 1,
                [offsets |-> st.offsets \o [i \in 1 .. Len(added) |-> U8(added[i] + last_offset)],
                 copied_len |-> st.copied_len + suffix.label_count - 1,
                 over |-> st.over \/ \E i \in 1 .. Len(added) : added[i] + last_offset > 255])

concat_all(self, suffixes, checks) ==
    LET tot == ConcatTotals(suffixes, 1,
                   [final_length |-> self.length, final_label_count |-> self.label_count,
                    over |-> FALSE])
    IN IF checks /\ tot.over THEN Panic("attempt to add with overflow")
       ELSE IF tot.final_length > MAX_WIRE_LEN THEN Err("TooLongName")
       ELSE IF tot.final_label_count > MAX_LABEL_COUNT THEN Err("TooLongLabel")
       ELSE IF Len(suffixes) = 0 THEN Panic("suffix_count - 1 underflows")
       ELSE LET off == ConcatOffsets(suffixes, 1,
                           [offsets |-> self.offsets, copied_len |-> self.label_count,
                            over |-> FALSE])
            IN IF checks /\ off.over THEN Panic("attempt to add with overflow")
               ELSE Ok([raw |-> ConcatRaw(suffixes, 1, SubSeq(self.raw, 1, self.length - 1)),
                        offsets |-> off.offsets,
                        length |-> tot.final_length,
                        label_count |-> tot.final_label_count])

(* name.rs:451-453 *)
concat(self, suffix, checks) == concat_all(self, <<suffix>>, checks)

(* reverse, the loop of name.rs:464-471 *)
RECURSIVE ReverseLoop(_, _, _, _, _)
ReverseLoop(self, i, raw, offsets, label_len) ==
    IF ~(i >= 0) THEN [raw |-> raw, offsets |-> offsets, label_len |-> label_len]
    ELSE LET label_start == At(self.offsets, i)
             label_end == At(self.offsets, i + 1)
         IN ReverseLoop(self, i - 1,
                        raw \o SubSeq(self.raw, label_start + 1, label_end),
                        Append(offsets, U8(label_len)),
                        label_len + (label_end - label_start))

(* reverse that returns the name as it is *)
reverse_as_clone(self) == self

(* name.rs:455-481 *)
reverse(self) ==
    IF self.label_count = 1 THEN self
    ELSE LET r == ReverseLoop(self, self.label_count - 2, <<>>, <<>>, 0)
         IN [raw |-> Append(r.raw, 0),
             offsets |-> Append(r.offsets, U8(r.label_len)),
             length |-> self.length,
             label_count |-> self.label_count]

(* split that appends a root also when the range already ends at the root *)
split_always_appends(self, start_label, label_count_) ==
    LET label_count == IF start_label + label_count_ > self.label_count
                       THEN self.label_count - start_label ELSE label_count_
        first_offset == At(self.offsets, start_label)
        end_pos == IF start_label + label_count = self.label_count THEN Len(self.raw)
                   ELSE At(self.offsets, start_label + label_count)
    IN IF start_label >= self.label_count THEN Err("InvalidLabelIndex")
       ELSE Ok([raw |-> Append(SubSeq(self.raw, first_offset + 1, end_pos), 0),
                offsets |-> [i \in 1 .. label_count + 1 |->
                                IF i <= label_count THEN At(self.offsets, start_label + i - 1) - first_offset
                                ELSE end_pos - first_offset],
                length |-> U8(end_pos - first_offset + 1),
                label_count |-> label_count + 1])

(* name.rs:483-529 *)
split(self, start_label, label_count_) ==
    LET max_label_count == self.label_count
        label_count == IF start_label + label_count_ > max_label_count
                       THEN max_label_count - start_label ELSE label_count_
    IN IF start_label >= max_label_count THEN Err("InvalidLabelIndex")
       ELSE IF start_label + label_count = self.label_count
       THEN LET first_offset == At(self.offsets, start_label)
                tail == SubSeq(self.offsets, start_label + 1, Len(self.offsets))
                start_pos == tail[1]
            IN Ok([raw |-> SubSeq(self.raw, start_pos + 1, Len(self.raw)),
                   offsets |-> [i \in 1 .. Len(tail) |->
                                   IF i <= label_count THEN tail[i] - first_offset ELSE tail[i]],
                   length |-> self.length - start_pos,
                   label_count |-> label_count])
       ELSE LET part == SubSeq(self.offsets, start_label + 1, start_label + label_count + 1)
                first_offset == At(self.offsets, start_label)
                raw == Append(SubSeq(self.raw, part[1] + 1, part[label_count + 1]), 0)
            IN Ok([raw |-> raw,
                   offsets |-> [i \in 1 .. Len(part) |-> part[i] - first_offset],
                   length |-> U8(Len(raw)),
                   label_count |-> label_count + 1])

(* name.rs:531-533; label_count - level is a usize subtraction: below zero *)
(* it panics in the build with overflow checks and wraps to a huge count   *)
(* in the other, which split then never reaches                            *)
parent(self, level, checks) ==
    IF level > self.label_count
    THEN IF checks THEN Panic("attempt to subtract with overflow")
         ELSE split(self, level, 0)
    ELSE split(self, level, self.label_count - level)

(* name.rs:550-573 *)
strip_left(self, label_count) ==
    IF ~(label_count < self.label_count) THEN Panic("assert label_count < self.label_count")
    ELSE IF label_count = 0 THEN Ok(self)
    ELSE LET new_label_count == self.label_count - label_count
             start_pos == At(self.offsets, label_count)
             tail == SubSeq(self.offsets, label_count + 1, Len(self.offsets))
         IN Ok([raw |-> SubSeq(self.raw, start_pos + 1, Len(self.raw)),
                offsets |-> [i \in 1 .. Len(tail) |->
                                IF i <= new_label_count THEN tail[i] - start_pos ELSE tail[i]],
                length |-> U8(self.length - start_pos),
                label_count |-> U8(new_label_count)])

(* name.rs:595-617 *)
strip_right(self, label_count) ==
    IF ~(label_count < self.label_count) THEN Panic("assert label_count < self.label_count")
    ELSE IF label_count = 0 THEN Ok(self)
    ELSE LET new_label_count == self.label_count - label_count
             end_label == new_label_count - 1
             end_pos == At(self.offsets, end_label)
         IN Ok([raw |-> SetAt(SubSeq(self.raw, 1, end_pos + 1), end_pos, 0),
                offsets |-> SubSeq(self.offsets, 1, end_label + 1),
                length |-> U8(end_pos + 1),
                label_count |-> U8(new_label_count)])

(* name.rs:575-593; Vec::split_off(at) leaves the first `at` elements in   *)
(* the vector and returns the rest                                         *)
to_ancestor(self, label_count) ==
    IF ~(label_count < self.label_count) THEN Panic("assert label_count < self.label_count")
    ELSE IF label_count = 0 THEN Ok(self)
    ELSE LET new_label_count == self.label_count - label_count
             start_pos == At(self.offsets, label_count)
             tail == SubSeq(self.offsets, label_count + 1, Len(self.offsets))
         IN Ok([raw |-> SubSeq(self.raw, start_pos + 1, Len(self.raw)),
                offsets |-> [i \in 1 .. Len(tail) |->
                                IF i <= new_label_count THEN tail[i] - start_pos ELSE tail[i]],
                length |-> U8(self.length - start_pos),
                label_count |-> U8(new_label_count)])

(* name.rs:619-635 *)
to_child(self, label_count) ==
    IF ~(label_count < self.label_count) THEN Panic("assert label_count < self.label_count")
    ELSE IF label_count = 0 THEN Ok(self)
    ELSE LET new_label_count == self.label_count - label_count
             end_label == new_label_count - 1
             end_pos == At(self.offsets, end_label)
         IN IF new_label_count + 1 > Len(self.offsets) THEN Panic("split_off: at > len")
            ELSE Ok([raw |-> SetAt(SubSeq(self.raw, 1, end_pos + 1), end_pos, 0),
                     offsets |-> SubSeq(self.offsets, 1, new_label_count + 1),
                     length |-> U8(end_pos + 1),
                     label_count |-> U8(new_label_count)])

----------------------------------------------------------------------------
(* The data-model invariants of a Name (spec section 3), and the names and *)
(* texts the checks draw their inputs from.                                *)
NameInv(n) ==
    /\ n.length = Len(n.raw) /\ n.length >= 1 /\ n.length <= MAX_WIRE_LEN
    /\ n.label_count = Len(n.offsets)
    /\ n.label_count >= 1 /\ n.label_count <= MAX_LABEL_COUNT
    /\ n.offsets[1] = 0
    /\ \A i \in 1 .. Len(n.offsets) : n.offsets[i] >= 0 /\ n.offsets[i] < Len(n.raw)
    /\ \A i \in 1 .. Len(n.offsets) - 1 :
          /\ At(n.raw, n.offsets[i]) >= 1 /\ At(n.raw, n.offsets[i]) <= MAX_LABEL_LEN
          /\ n.offsets[i + 1] = n.offsets[i] + At(n.raw, n.offsets[i]) + 1
    /\ Last(n.offsets) = Len(n.raw) - 1
    /\ Last(n.raw) = 0
    /\ \A i \in 1 .. Len(n.raw) : n.raw[i] \in Byte

RECURSIVE RawOf(_)
RawOf(labels) ==
    IF labels = <<>> THEN <<0>>
    ELSE <<Len(Head(labels))>> \o Head(labels) \o RawOf(Tail(labels))

RECURSIVE OffsetsOf(_, _)
OffsetsOf(labels, base) ==
    IF labels = <<>> THEN <<base>>
    ELSE <<base>> \o OffsetsOf(Tail(labels), base + Len(Head(labels)) + 1)

(* The name whose non-root labels are `labels`, in order *)
MkName(labels) ==
    [raw |-> RawOf(labels), offsets |-> OffsetsOf(labels, 0),
     length |-> Len(RawOf(labels)), label_count |-> Len(labels) + 1]

(* The labels of a name, read through its offsets *)
LabelAt(n, i) ==
    LET o == n.offsets[i] IN SubSeq(n.raw, o + 2, o + 1 + At(n.raw, o))
LabelsOf(n) == [i \in 1 .. Len(n.offsets) |-> LabelAt(n, i)]

StringsUpTo(alpha, k) == UNION {[1 .. m -> alpha] : m \in 0 .. k}

(* The labels got by cutting the byte string s after the positions in cuts *)
RECURSIVE SplitAt(_, _, _, _)
SplitAt(s, cuts, i, cur) ==
    IF i > Len(s) THEN (IF cur = <<>> THEN <<>> ELSE <<cur>>)
    ELSE IF i \in cuts THEN <<Append(cur, s[i])>> \o SplitAt(s, cuts, i + 1, <<>>)
    ELSE SplitAt(s, cuts, i + 1, Append(cur, s[i]))

(* Every list of non-empty labels over alpha with at most k bytes in all *)
LabelLists(alpha, k) ==
    UNION {{SplitAt(s, cuts, 1, <<>>) : s \in [1 .. m -> alpha], cuts \in SUBSET (1 .. m - 1)} :
           m \in 0 .. k}

NamesOver(alpha, k) == {MkName(ls) : ls \in LabelLists(alpha, k)}

(* One label of one byte, for every byte *)
WideNames == {MkName(<<<<c>>>>) : c \in Byte}

----------------------------------------------------------------------------
(* Messages.  The renderer's output is modelled record by record: a header, *)
(* a question and the resource records in the order written, each name as  *)
(* the labels a decoder reads back from that place of the buffer.          *)
TYPE_A == 1
TYPE_TXT == 16
TYPE_OPT == 41
CLASS_IN == 1
CLASS_CH == 3

None == [some |-> FALSE, val |-> <<>>]
Some(v) == [some |-> TRUE, val |-> v]

NameLabels(n) == SubSeq(LabelsOf(n), 1, Len(n.offsets) - 1)
FoldLabels(ls) == [i \in 1 .. Len(ls) |-> [k \in 1 .. Len(ls[i]) |-> lower_caes(ls[i][k])]]
Suffix(ls, k) == SubSeq(ls, k + 1, Len(ls))

(* MessageRender::write_name: the longest tail of the name already in the  *)
(* compression dictionary is written as a pointer to its first occurrence, *)
(* found by case-folded comparison; a decoder reads the bytes of that      *)
(* first occurrence.  dict holds the names written so far, as read back.   *)
TailIn(dict, ls) ==
    {d \in 1 .. Len(dict) :
        \E j \in 0 .. Len(dict[d]) - 1 : FoldLabels(Suffix(dict[d], j)) = FoldLabels(ls)}
write_name(dict, labels) ==
    LET hits == {k \in 0 .. Len(labels) - 1 : TailIn(dict, Suffix(labels, k)) # {}}
    IN IF hits = {} THEN labels
       ELSE LET k == CHOOSE x \in hits : \A y \in hits : x <= y
                d == CHOOSE x \in TailIn(dict, Suffix(labels, k)) :
                        \A y \in TailIn(dict, Suffix(labels, k)) : x <= y
            IN SubSeq(labels, 1, k) \o Suffix(dict[d], Len(dict[d]) - (Len(labels) - k))

(* The names of a list of records, written in order through write_name *)
RECURSIVE RenderNames(_, _, _, _)
RenderNames(names, k, dict, out) ==
    IF k > Len(names) THEN out
    ELSE LET written == write_name(dict, NameLabels(names[k]))
         IN RenderNames(names, k + 1, Append(dict, written), Append(out, MkName(written)))

(* RRset::rend, rrset.rs:61-81: one record for each rdata, one record with *)
(* rdlen 0 when there is none                                              *)
RRset_rend(rrset) ==
    IF rrset.rdatas = <<>>
    THEN <<[name |-> rrset.name, typ |-> rrset.typ, class |-> rrset.class,
            ttl |-> rrset.ttl, rdlen |-> 0, rdata |-> <<>>]>>
    ELSE [i \in 1 .. Len(rrset.rdatas) |->
            [name |-> rrset.name, typ |-> rrset.typ, class |-> rrset.class,
             ttl |-> rrset.ttl, rdlen |-> Len(rrset.rdatas[i]), rdata |-> rrset.rdatas[i]]]

(* RRset::from_wire, rrset.rs:41-59 *)
RRset_from_wire(rr) ==
    [name |-> rr.name, typ |-> rr.typ, class |-> rr.class, ttl |-> rr.ttl,
     rdatas |-> IF rr.rdlen > 0 THEN <<rr.rdata>> ELSE <<>>]

(* rrset.rs:123-125, 127-129 *)
RRset_rr_count(rrset) == Len(rrset.rdatas)
is_same_rrset(self, other) == self.typ = other.typ /\ Name_eq(self.name, other.name)

(* derived PartialEq of RRset, rrset.rs:31: field by field, the name by    *)
(* Name's own eq                                                           *)
RRset_eq(a, b) ==
    /\ Name_eq(a.name, b.name)
    /\ a.typ = b.typ /\ a.class = b.class /\ a.ttl = b.ttl /\ a.rdatas = b.rdatas

RECURSIVE FlatRend(_)
FlatRend(rrsets) ==
    IF rrsets = <<>> THEN <<>> ELSE RRset_rend(Head(rrsets)) \o FlatRend(Tail(rrsets))

RECURSIVE SumRRCount(_)
SumRRCount(rrsets) ==
    IF rrsets = <<>> THEN 0 ELSE RRset_rr_count(Head(rrsets)) + SumRRCount(Tail(rrsets))

(* Section, message.rs:22-58 *)
Section_rr_count(section) == IF section.some THEN SumRRCount(section.val) ELSE 0
Section_rend(section) == IF section.some THEN FlatRend(section.val) ELSE <<>>
Section_eq(a, b) ==
    /\ a.some = b.some
    /\ Len(a.val) = Len(b.val)
    /\ \A i \in 1 .. Len(a.val) : RRset_eq(a.val[i], b.val[i])

(* Section::from_wire, the loop of message.rs:41-49 over the records from  *)
(* position pos on; reading past the last record is the buffer's error     *)
RECURSIVE SectionLoop(_, _, _, _, _)
SectionLoop(rrs, pos, left, rrsets, last_rrset) ==
    IF left = 0
    THEN [kind |-> "Ok", err |-> "", section |-> Some(Append(rrsets, last_rrset)), pos |-> pos]
    ELSE IF pos >= Len(rrs)
    THEN [kind |-> "Err", err |-> "InCompleteWire", section |-> None, pos |-> pos]
    ELSE LET rrset == RRset_from_wire(At(rrs, pos))
         IN IF is_same_rrset(rrset, last_rrset)
            THEN IF rrset.rdatas = <<>>
                 THEN [kind |-> "Panic", err |-> "remove(0) of an empty vector",
                       section |-> None, pos |-> pos]
                 ELSE SectionLoop(rrs, pos + 1, left - 1, rrsets,
                        [last_rrset EXCEPT !.rdatas = Append(@, rrset.rdatas[1])])
            ELSE SectionLoop(rrs, pos + 1, left - 1, Append(rrsets, last_rrset), rrset)

(* message.rs:34-52 *)
Section_from_wire(rrs, pos, rr_count) ==
    IF rr_count = 0
    THEN [kind |-> "Ok", err |-> "", section |-> None, pos |-> pos]
    ELSE IF pos >= Len(rrs)
    THEN [kind |-> "Err", err |-> "InCompleteWire", section |-> None, pos |-> pos]
    ELSE SectionLoop(rrs, pos + 1, rr_count - 1, <<>>, RRset_from_wire(At(rrs, pos)))

(* Edns: one OPT record of the root name, the class carrying the UDP size  *)
(* and the ttl the extended rcode, the version and the DO flag             *)
Edns_rr_count(edns) == 1
Edns_rend(edns) ==
    [name |-> root, typ |-> TYPE_OPT, class |-> edns.udp_size,
     ttl |-> edns.extened_rcode * 16777216 + edns.versoin * 65536
             + (IF edns.dnssec_aware THEN 32768 ELSE 0),
     rdlen |-> 0, rdata |-> <<>>]
Edns_from_rrset(rrset) ==
    [versoin |-> (rrset.ttl \div 65536) % 256,
     extened_rcode |-> rrset.ttl \div 16777216,
     udp_size |-> rrset.class,
     dnssec_aware |-> (rrset.ttl % 65536) \div 32768 = 1]

(* Message::recalculate_header, message.rs:128-134 *)
recalculate_header(m) ==
    [m EXCEPT !.header.qd_count = 1,
              !.header.an_count = Section_rr_count(m.sections[1]),
              !.header.ns_count = Section_rr_count(m.sections[2]),
              !.header.ar_count = Section_rr_count(m.sections[3])
                                  + (IF m.edns.some THEN Edns_rr_count(m.edns.val) ELSE 0)]

(* Message::rend, message.rs:136-145 *)
Message_rend(m) ==
    LET rrs == Section_rend(m.sections[1]) \o Section_rend(m.sections[2])
               \o Section_rend(m.sections[3])
               \o (IF m.edns.some THEN <<Edns_rend(m.edns.val)>> ELSE <<>>)
        names == RenderNames(<<m.question.name>> \o [i \in 1 .. Len(rrs) |-> rrs[i].name],
                             1, <<>>, <<>>)
    IN [header |-> m.header,
        question |-> [m.question EXCEPT !.name = names[1]],
        rrs |-> [i \in 1 .. Len(rrs) |-> [rrs[i] EXCEPT !.name = names[i + 1]]]]

NoMessage ==
    [header |-> [id |-> 0, qd_count |-> 0, an_count |-> 0, ns_count |-> 0, ar_count |-> 0],
     question |-> [name |-> root, typ |-> TYPE_A, class |-> CLASS_IN],
     sections |-> <<None, None, None>>, edns |-> None]
MsgErr(e) == [kind |-> "Err", err |-> e, message |-> NoMessage]

(* Message::from_wire, message.rs:100-126 *)
Message_from_wire(raw) ==
    LET header == raw.header
        answer == Section_from_wire(raw.rrs, 0, header.an_count)
        auth == Section_from_wire(raw.rrs, answer.pos, header.ns_count)
        additional == Section_from_wire(raw.rrs, auth.pos, header.ar_count)
        rrsets == additional.section.val
        is_opt == header.ar_count > 0 /\ Last(rrsets).typ = TYPE_OPT
    IN IF header.qd_count # 1 THEN MsgErr("ShortOfQuestion")
       ELSE IF answer.kind # "Ok" THEN [kind |-> answer.kind, err |-> answer.err, message |-> NoMessage]
       ELSE IF auth.kind # "Ok" THEN [kind |-> auth.kind, err |-> auth.err, message |-> NoMessage]
       ELSE IF additional.kind # "Ok"
       THEN [kind |-> additional.kind, err |-> additional.err, message |-> NoMessage]
       ELSE [kind |-> "Ok", err |-> "",
             message |->
                [header |-> header,
                 question |-> raw.question,
                 sections |-> <<answer.section, auth.section,
                                IF is_opt THEN Some(SubSeq(rrsets, 1, Len(rrsets) - 1))
                                ELSE additional.section>>,
                 edns |-> IF is_opt THEN Some(Edns_from_rrset(Last(rrsets))) ELSE None]]

(* derived PartialEq of Message, message.rs:76-82 *)
Message_eq(a, b) ==
    /\ a.header = b.header
    /\ Name_eq(a.question.name, b.question.name)
    /\ a.question.typ = b.question.typ /\ a.question.class = b.question.class
    /\ \A i \in 1 .. 3 : Section_eq(a.sections[i], b.sections[i])
    /\ a.edns = b.edns

----------------------------------------------------------------------------
(* Bounds of the checks *)
MaxTextLen == 4
MaxNameBytes == 3
MaxTailLabels == 2

AlphaText == {97, CH_DOT, CH_BACKSLASH, CH_ZERO, 54, CH_AT, CH_LBRACKET}
AlphaPresent == {97, 65, CH_DOT, CH_BACKSLASH, 0, 200}

(* Long escape-free texts: three labels of 63 letters, a fourth of 60 to   *)
(* 63 letters, then up to MaxTailLabels labels of one letter, with or      *)
(* without the trailing period.                                            *)
LongLabel == [i \in 1 .. MAX_LABEL_LEN |-> 97]
LongHead == LongLabel \o <<CH_DOT>> \o LongLabel \o <<CH_DOT>> \o LongLabel \o <<CH_DOT>>
LongTail(k) == [i \in 1 .. 2 * k |-> IF i % 2 = 1 THEN CH_DOT ELSE 97]
LongTexts ==
    {LongHead \o SubSeq(LongLabel, 1, m) \o LongTail(k) \o d :
        m \in 60 .. MAX_LABEL_LEN, k \in 0 .. MaxTailLabels, d \in {<<>>, <<CH_DOT>>}}

(* Texts with a label of 64 letters, alone, after a label, before a period *)
OverlongLabel == [i \in 1 .. MAX_LABEL_LEN + 1 |-> 97]
OverlongTexts ==
    {OverlongLabel, OverlongLabel \o <<CH_DOT>>, <<97, CH_DOT>> \o OverlongLabel,
     LongLabel \o <<CH_DOT>> \o OverlongLabel \o <<CH_DOT, 97>>,
     LongLabel \o <<CH_DOT, CH_DOT>> \o LongLabel}

(* Texts with a backslash and three more characters inside a label *)
DecimalTexts ==
    {<<97, CH_BACKSLASH>> \o d \o tail :
        d \in [1 .. 3 -> {CH_ZERO, 54, 97}], tail \in {<<>>, <<CH_DOT>>, <<97>>}}

Texts == StringsUpTo(AlphaText, MaxTextLen) \cup LongTexts \cup OverlongTexts \cup DecimalTexts

(* An escape-free text of non-empty labels of at most 63 bytes, and the    *)
(* size of its wire image: its label bytes, one length octet for each      *)
(* label, one octet for the root.                                          *)
IsPlainText(t) ==
    /\ t # <<>> /\ t[1] # CH_DOT
    /\ \A i \in 1 .. Len(t) : t[i] \notin {CH_BACKSLASH, CH_AT}
    /\ \A i \in 1 .. Len(t) - 1 : ~(t[i] = CH_DOT /\ t[i + 1] = CH_DOT)
    /\ \A i \in 1 .. Len(t) - MAX_LABEL_LEN :
          \E j \in i .. i + MAX_LABEL_LEN : t[j] = CH_DOT
WireSizeOf(t) ==
    Cardinality({i \in 1 .. Len(t) : t[i] # CH_DOT})
    + Cardinality({i \in 1 .. Len(t) : t[i] = CH_DOT})
    + (IF Last(t) = CH_DOT THEN 0 ELSE 1) + 1

----------------------------------------------------------------------------
IdleName == NoName
IdleParse == ParseEnter(0)
IdleWire == inbuf = <<>> /\ fw = FwEnter(0) /\ ptrs = <<>>
NoCall == [op |-> "none", args |-> <<>>]
IdleCalls == call = NoCall /\ msg = <<>> /\ wire = <<>>
IdleViews == slice = NoSlice /\ seq = NoSeq

(* Name::new(text), one action for each iteration of string_parse's loop   *)
ParseFrame == <<overflow_checks, name_a, name_b, name_c, inbuf, fw, ptrs, call, msg, wire, slice, seq>>

InitParse ==
    /\ pc = "parse"
    /\ IdleViews
    /\ overflow_checks \in BOOLEAN
    /\ text \in Texts
    /\ name_a = IdleName /\ name_b = IdleName /\ name_c = IdleName
    /\ sp = ParseEnter(0)
    /\ IdleWire /\ IdleCalls
    /\ ret = NoRet

ParseStep ==
    /\ pc = "parse" /\ sp.ctl = "cont"
    /\ sp' = ParseIter(text, Len(text), sp)
    /\ UNCHANGED <<pc, text, ret, ParseFrame>>

ParseReturn ==
    /\ pc = "parse" /\ sp.ctl # "cont"
    /\ ret' = NameOfParse(ParseExit(sp, Len(text)))
    /\ pc' = "done"
    /\ UNCHANGED <<text, sp, ParseFrame>>

NextParse == ParseStep \/ ParseReturn

SpecParse == InitParse /\ [][NextParse]_vars

(* C3: Name::new returns Ok or Err for every text: no assertion failure,   *)
(* out-of-bounds index or overflow is reachable inside string_parse.       *)
C3_NewNeverPanics == pc = "done" => ret.kind \in {"Ok", "Err"}

(* C4: Name::new never returns Ok with a raw longer than 255 bytes or a    *)
(* stored length different from |raw|, and every escape-free text of       *)
(* labels of at most 63 bytes whose wire image exceeds 255 bytes is        *)
(* rejected with TooLongName.                                              *)
C4_NewRespectsWireLimit ==
    pc = "done" =>
        /\ ret.kind = "Ok" =>
              Len(ret.name.raw) <= MAX_WIRE_LEN /\ ret.name.length = Len(ret.name.raw)
        /\ (IsPlainText(text) /\ WireSizeOf(text) > MAX_WIRE_LEN) =>
              (ret.kind = "Err" /\ ret.err = "TooLongName")


----------------------------------------------------------------------------
(* A name printed with to_string and parsed back with Name::new            *)
PresentFrame == <<overflow_checks, name_b, name_c, sp, inbuf, fw, ptrs, call, msg, wire, slice, seq>>
PresentNames == NamesOver(AlphaPresent, MaxNameBytes) \cup WideNames

InitPresent ==
    /\ pc = "start"
    /\ IdleViews
    /\ overflow_checks \in BOOLEAN
    /\ name_a \in PresentNames
    /\ text = <<>>
    /\ name_b = IdleName /\ name_c = IdleName
    /\ sp = IdleParse
    /\ IdleWire /\ IdleCalls
    /\ ret = NoRet

CallToString ==
    /\ pc = "start"
    /\ text' = to_string(name_a)
    /\ pc' = "printed"
    /\ UNCHANGED <<name_a, ret, PresentFrame>>

CallNewOfString ==
    /\ pc = "printed"
    /\ ret' = Name_new(text)
    /\ pc' = "done"
    /\ UNCHANGED <<text, name_a, PresentFrame>>

NextPresent == CallToString \/ CallNewOfString

SpecPresent == InitPresent /\ [][NextPresent]_vars

(* C1: for every name n, Name::new(n.to_string()) is Ok(m) with m == n     *)
(* under Name's case-insensitive equality.                                 *)
C1_PresentationRoundTrip ==
    pc = "done" => (ret.kind = "Ok" /\ Name_eq(ret.name, name_a))


----------------------------------------------------------------------------
(* Name::from_wire on a buffer, one action for each iteration of its loop  *)
MaxBufLen == 4
AlphaWire == {0, 1, 2, CH_AT, COMPRESS_POINTER_MARK8, 193}
Buffers == StringsUpTo(AlphaWire, MaxBufLen)
WireFrame == <<overflow_checks, text, name_a, name_b, name_c, sp, call, msg, wire, slice, seq>>

InitWire ==
    /\ pc = "wire"
    /\ IdleViews
    /\ overflow_checks \in BOOLEAN
    /\ inbuf \in Buffers
    /\ \E position \in 0 .. Len(inbuf) : fw = FwEnter(position)
    /\ ptrs = <<>>
    /\ IdleCalls
    /\ text = <<>> /\ name_a = IdleName /\ name_b = IdleName /\ name_c = IdleName
    /\ sp = IdleParse
    /\ ret = NoRet

FwStep ==
    /\ pc = "wire" /\ fw.ctl = "cont"
    /\ fw' = FwIter(inbuf, fw)
    /\ ptrs' = IF fw'.ctl = "cont" /\ fw.state = "NewCurrent" /\ fw'.state = "Start"
               THEN Append(ptrs, fw'.current) ELSE ptrs
    /\ UNCHANGED <<pc, inbuf, ret, WireFrame>>

FwReturn ==
    /\ pc = "wire" /\ fw.ctl # "cont"
    /\ ret' = FwExit(fw)
    /\ fw' = [fw EXCEPT !.bufpos = FwExitPosition(fw)]
    /\ pc' = "done"
    /\ UNCHANGED <<inbuf, ptrs, WireFrame>>

NextWire == FwStep \/ FwReturn

SpecWire == InitWire /\ [][NextWire]_vars

(* C6: a compression pointer is followed only if its 14-bit target is      *)
(* below the position the decode started at and below every target already *)
(* followed; otherwise from_wire returns BadCompressPointer.  A pointer    *)
(* whose target is at or after the offset of the pointer itself is always  *)
(* rejected with BadCompressPointer.                                       *)
PointerTarget == (At(inbuf, fw.current - 1) % 64) * 256 + At(inbuf, fw.current)
PointerAllowed ==
    /\ PointerTarget < fw.pos_beg
    /\ \A i \in 1 .. Len(ptrs) : PointerTarget < ptrs[i]
C6_PointerLoopRejection ==
    [][/\ (pc = "wire" /\ fw.ctl = "cont" /\ fw.state = "NewCurrent" /\ fw.current < Len(inbuf)) =>
            /\ PointerAllowed =>
                  (fw'.ctl = "cont" /\ fw'.current = PointerTarget /\ fw'.bufpos = PointerTarget
                   /\ ptrs' = Append(ptrs, PointerTarget))
            /\ ~PointerAllowed => (fw'.ctl = "ret" /\ fw'.err = "BadCompressPointer")
            /\ PointerTarget >= fw.current - 1 =>
                  (fw'.ctl = "ret" /\ fw'.err = "BadCompressPointer")
       /\ (pc = "wire" /\ pc' = "done" /\ fw.ctl = "ret") =>
            (ret'.kind = "Err" /\ ret'.err = fw.err)
       /\ (ptrs' # ptrs) => (fw.state = "NewCurrent" /\ PointerAllowed)]_vars

C6_FollowedThenRejected ==
    pc = "done" /\ Len(ptrs) >= 1 /\ ret.kind = "Err" /\ ret.err = "BadCompressPointer"


----------------------------------------------------------------------------
(* Equality and hashing of two names                                       *)
AlphaCase == {65, 97}
EqPairs ==
    (NamesOver(AlphaCase, MaxNameBytes) \X NamesOver(AlphaCase, MaxNameBytes))
    \cup (WideNames \X WideNames)
EqFrame == <<overflow_checks, text, name_c, sp, inbuf, fw, ptrs, call, msg, wire, slice, seq>>

InitEq ==
    /\ pc = "start"
    /\ IdleViews
    /\ overflow_checks = FALSE
    /\ \E pair \in EqPairs : name_a = pair[1] /\ name_b = pair[2]
    /\ text = <<>> /\ name_c = IdleName
    /\ sp = IdleParse
    /\ IdleWire /\ IdleCalls
    /\ ret = [eq |-> FALSE, hash_a |-> <<>>, hash_b |-> <<>>]

CallEq ==
    /\ pc = "start"
    /\ ret' = [ret EXCEPT !.eq = Name_eq(name_a, name_b)]
    /\ pc' = "compared"
    /\ UNCHANGED <<name_a, name_b, EqFrame>>

CallHash ==
    /\ pc = "compared"
    /\ ret' = [ret EXCEPT !.hash_a = Name_hash(name_a), !.hash_b = Name_hash(name_b)]
    /\ pc' = "done"
    /\ UNCHANGED <<name_a, name_b, EqFrame>>

NextEq == CallEq \/ CallHash

SpecEq == InitEq /\ [][NextEq]_vars

(* A-Z folded to a-z, every other byte kept: what "equal up to ASCII case" *)
(* means for one byte                                                      *)
FoldByte(c) == IF c \in 65 .. 90 THEN c + 32 ELSE c
SameUpToCase(a, b) ==
    LET la == LabelsOf(a)
        lb == LabelsOf(b)
    IN /\ Len(la) = Len(lb)
       /\ \A i \in 1 .. Len(la) :
             /\ Len(la[i]) = Len(lb[i])
             /\ \A k \in 1 .. Len(la[i]) : FoldByte(la[i][k]) = FoldByte(lb[i][k])

(* C7: a == b exactly when the two names have the same label lengths in    *)
(* the same order and every pair of label bytes is equal after mapping A-Z *)
(* to a-z; and whenever a == b the bytes fed to the hasher are the same.   *)
C7_EqualityAndHash ==
    /\ pc \in {"compared", "done"} => (ret.eq <=> SameUpToCase(name_a, name_b))
    /\ pc = "done" => (ret.eq => ret.hash_a = ret.hash_b)

C7_EqualDifferentCase ==
    pc = "done" /\ ret.eq /\ name_a.raw # name_b.raw /\ ret.hash_a = ret.hash_b

----------------------------------------------------------------------------
(* Relation, order and subdomain test of two names                         *)
MaxCmpBytes == 2
AlphaCmp == {65, 97, 66}
CmpPairs ==
    (NamesOver(AlphaCmp, MaxCmpBytes) \X NamesOver(AlphaCmp, MaxCmpBytes))
    \cup (WideNames \X WideNames)
CompareFrame == <<overflow_checks, text, name_c, sp, inbuf, fw, ptrs, call, msg, wire, slice, seq>>

InitCompare ==
    /\ pc = "start"
    /\ IdleViews
    /\ overflow_checks \in BOOLEAN
    /\ \E pair \in CmpPairs : name_a = pair[1] /\ name_b = pair[2]
    /\ text = <<>> /\ name_c = IdleName
    /\ sp = IdleParse
    /\ IdleWire /\ IdleCalls
    /\ ret = [ab |-> CmpPanic, ba |-> CmpPanic, sub |-> FALSE]

CallGetRelation ==
    /\ pc = "start"
    /\ ret' = [ret EXCEPT !.ab = get_relation(name_a, name_b, overflow_checks),
                          !.ba = get_relation(name_b, name_a, overflow_checks)]
    /\ pc' = "related"
    /\ UNCHANGED <<name_a, name_b, CompareFrame>>

CallIsSubdomain ==
    /\ pc = "related"
    /\ ret' = [ret EXCEPT !.sub = is_subdomain(name_a, name_b)]
    /\ pc' = "done"
    /\ UNCHANGED <<name_a, name_b, CompareFrame>>

NextCompare == CallGetRelation \/ CallIsSubdomain

SpecCompare == InitCompare /\ [][NextCompare]_vars

(* C9: a.get_relation(b).order = -b.get_relation(a).order as signed bytes, *)
(* and computing it never overflows the signed byte.                       *)
C9_OrderAntisymmetric ==
    pc \in {"related", "done"} =>
        /\ ret.ab.kind = "Ok" /\ ret.ba.kind = "Ok"
        /\ ret.ab.order = -ret.ba.order

(* C10: a.is_subdomain(b) is true iff a.get_relation(b).relation is Equal  *)
(* or SubDomain.                                                           *)
C10_SubdomainAgreesWithRelation ==
    (pc = "done" /\ ret.ab.kind = "Ok") =>
        (ret.sub <=> ret.ab.relation \in {"Equal", "SubDomain"})

----------------------------------------------------------------------------
(* The order of three names                                                *)
MaxOrderBytes == 1
OrderNames == NamesOver(AlphaCmp, MaxOrderBytes)
OrderFrame == <<overflow_checks, text, sp, inbuf, fw, ptrs, call, msg, wire, slice, seq>>

InitOrder ==
    /\ pc = "start"
    /\ IdleViews
    /\ overflow_checks \in BOOLEAN
    /\ name_a \in OrderNames /\ name_b \in OrderNames /\ name_c \in OrderNames
    /\ text = <<>>
    /\ sp = IdleParse
    /\ IdleWire /\ IdleCalls
    /\ ret = [ab |-> "", bc |-> "", ac |-> "", eq_ab |-> FALSE]

CallCmp ==
    /\ pc = "start"
    /\ ret' = [ret EXCEPT !.ab = Name_cmp(name_a, name_b, overflow_checks),
                          !.bc = Name_cmp(name_b, name_c, overflow_checks),
                          !.ac = Name_cmp(name_a, name_c, overflow_checks)]
    /\ pc' = "ordered"
    /\ UNCHANGED <<name_a, name_b, name_c, OrderFrame>>

CallEqOfOrdered ==
    /\ pc = "ordered"
    /\ ret' = [ret EXCEPT !.eq_ab = Name_eq(name_a, name_b)]
    /\ pc' = "done"
    /\ UNCHANGED <<name_a, name_b, name_c, OrderFrame>>

NextOrder == CallCmp \/ CallEqOfOrdered

SpecOrder == InitOrder /\ [][NextOrder]_vars

(* C8: cmp is a total order consistent with equality: cmp(a, b) is Equal   *)
(* iff a == b, cmp is transitive, and replacing a by a name equal to it    *)
(* never changes the result of the comparison with a third name.           *)
C8_CmpTotalOrder ==
    pc = "done" =>
        /\ (ret.ab = "Equal") <=> ret.eq_ab
        /\ (ret.ab = "Less" /\ ret.bc = "Less") => ret.ac = "Less"
        /\ ret.eq_ab => ret.ac = ret.bc


----------------------------------------------------------------------------
(* The name algebra called on names that satisfy the data-model invariants *)
MaxLabelArg == 3
MaxSuffixBytes == 2
BigNames == {MkName([i \in 1 .. k |-> LongLabel]) : k \in 2 .. 3}
AlgNames == NamesOver(AlphaCase, MaxNameBytes) \cup BigNames
SuffixNames == NamesOver({97}, MaxSuffixBytes) \cup BigNames
LastSuffixNames == {root, MkName(<<<<97>>>>)} \cup BigNames
LabelArgs == 0 .. MaxLabelArg
AlgebraFrame == <<overflow_checks, text, name_a, name_b, name_c, sp, inbuf, fw, ptrs, msg, wire, slice, seq>>

InitAlgebra ==
    /\ pc = "start"
    /\ IdleViews
    /\ overflow_checks \in BOOLEAN
    /\ name_a \in AlgNames /\ name_b \in SuffixNames /\ name_c \in LastSuffixNames
    /\ text = <<>>
    /\ sp = IdleParse
    /\ IdleWire /\ IdleCalls
    /\ ret = NoRet

Returned(op, args, result) ==
    /\ pc = "start"
    /\ call' = [op |-> op, args |-> args]
    /\ ret' = result
    /\ pc' = "done"
    /\ UNCHANGED AlgebraFrame

CallSplit ==
    \E start_label \in LabelArgs, label_count \in LabelArgs :
        Returned("split", <<start_label, label_count>>, split(name_a, start_label, label_count))

CallParent ==
    \E level \in LabelArgs :
        Returned("parent", <<level>>, parent(name_a, level, overflow_checks))

CallStripLeft ==
    \E label_count \in LabelArgs :
        Returned("strip_left", <<label_count>>, strip_left(name_a, label_count))

CallStripRight ==
    \E label_count \in LabelArgs :
        Returned("strip_right", <<label_count>>, strip_right(name_a, label_count))

CallReverse == Returned("reverse", <<>>, Ok(reverse(name_a)))

CallToAncestor ==
    \E label_count \in LabelArgs :
        Returned("to_ancestor", <<label_count>>, to_ancestor(name_a, label_count))

CallToChild ==
    \E label_count \in LabelArgs :
        Returned("to_child", <<label_count>>, to_child(name_a, label_count))

CallConcatAll ==
    \E suffixes \in {<<>>, <<name_b>>, <<name_c>>, <<name_b, name_c>>} :
        Returned("concat_all", suffixes, concat_all(name_a, suffixes, overflow_checks))

NextAlgebra ==
    \/ CallSplit \/ CallParent \/ CallStripLeft \/ CallStripRight
    \/ CallReverse \/ CallConcatAll \/ CallToAncestor \/ CallToChild

SpecAlgebra == InitAlgebra /\ [][NextAlgebra]_vars

(* C5: the name returned by split, parent, strip_left, strip_right,        *)
(* reverse and (when it returns Ok) concat_all, called on a name that      *)
(* satisfies the data-model invariants, satisfies them again.              *)
C5_AlgebraPreservesInvariants ==
    (pc = "done" /\ ret.kind = "Ok" /\ call.op \notin {"to_ancestor", "to_child"}) =>
        NameInv(ret.name)

----------------------------------------------------------------------------
(* A message is built, its header counted, rendered, decoded and rendered  *)
(* again                                                                   *)
MaxRRsets == 2
MaxRdatas == 2
MsgNames == {MkName(<<<<97>>>>), MkName(<<<<65>>>>), MkName(<<<<98>>, <<97>>>>)}
Rdatas == {<<>>} \cup UNION {[1 .. n -> {<<1>>, <<2, 2>>}] : n \in 1 .. MaxRdatas}
AnswerRRsets ==
    [name : MsgNames, typ : {TYPE_A, TYPE_TXT}, class : {CLASS_IN, CLASS_CH},
     ttl : {3600}, rdatas : {r \in Rdatas : Len(r) <= 1 \/ r[1] # r[2]}]
AnswerSections == {None} \cup {Some(v) : v \in UNION {[1 .. n -> AnswerRRsets] : n \in 1 .. MaxRRsets}}
AuthSections ==
    {None, Some(<<[name |-> MkName(<<<<97>>>>), typ |-> TYPE_TXT, class |-> CLASS_IN,
                   ttl |-> 3600, rdatas |-> <<<<1>>>>]>>)}
AdditionalSections ==
    {None, Some(<<[name |-> MkName(<<<<98>>, <<97>>>>), typ |-> TYPE_A, class |-> CLASS_IN,
                   ttl |-> 3600, rdatas |-> <<<<2, 2>>>>]>>)}
EdnsChoices ==
    {None,
     Some([versoin |-> 0, extened_rcode |-> 0, udp_size |-> 4096, dnssec_aware |-> FALSE]),
     Some([versoin |-> 0, extened_rcode |-> 1, udp_size |-> 512, dnssec_aware |-> TRUE])}
MessageFrame == <<overflow_checks, text, name_a, name_b, name_c, sp, inbuf, fw, ptrs, call, slice, seq>>
NoDecode == [kind |-> "None", err |-> "", message |-> NoMessage, wire |-> <<>>]

InitMessage ==
    /\ pc = "built"
    /\ IdleViews
    /\ overflow_checks = FALSE
    /\ \E answer \in AnswerSections, auth \in AuthSections,
          additional \in AdditionalSections, edns \in EdnsChoices :
          msg = [NoMessage EXCEPT !.header.id = 1200,
                                  !.question.name = MkName(<<<<97>>>>),
                                  !.sections = <<answer, auth, additional>>,
                                  !.edns = edns]
    /\ wire = <<>>
    /\ call = NoCall
    /\ text = <<>> /\ name_a = IdleName /\ name_b = IdleName /\ name_c = IdleName
    /\ sp = IdleParse
    /\ IdleWire
    /\ ret = NoDecode

CallRecalculateHeader ==
    /\ pc = "built"
    /\ msg' = recalculate_header(msg)
    /\ pc' = "counted"
    /\ UNCHANGED <<wire, ret, MessageFrame>>

CallRend ==
    /\ pc = "counted"
    /\ wire' = Message_rend(msg)
    /\ pc' = "rendered"
    /\ UNCHANGED <<msg, ret, MessageFrame>>

CallFromWire ==
    /\ pc = "rendered"
    /\ ret' = Message_from_wire(wire) @@ [wire |-> <<>>]
    /\ pc' = "decoded"
    /\ UNCHANGED <<msg, wire, MessageFrame>>

CallRendDecoded ==
    /\ pc = "decoded" /\ ret.kind = "Ok"
    /\ ret' = [ret EXCEPT !.wire = Message_rend(ret.message)]
    /\ pc' = "done"
    /\ UNCHANGED <<msg, wire, MessageFrame>>

NextMessage == CallRecalculateHeader \/ CallRend \/ CallFromWire \/ CallRendDecoded

SpecMessage == InitMessage /\ [][NextMessage]_vars

(* C2: for every message whose header counts agree with its contents,      *)
(* decoding the rendered message returns a message equal to it, and        *)
(* rendering the decoded message reproduces what was rendered.             *)
C2_MessageWireRoundTrip ==
    /\ pc \in {"decoded", "done"} => (ret.kind = "Ok" /\ Message_eq(ret.message, msg))
    /\ pc = "done" => ret.wire = wire

----------------------------------------------------------------------------
(* The labels of a name with A-Z folded to a-z, the root label included,   *)
(* and how many labels two names share counted from the root               *)
FoldedLabels(n) ==
    LET ls == LabelsOf(n)
    IN [i \in 1 .. Len(ls) |-> [k \in 1 .. Len(ls[i]) |-> FoldByte(ls[i][k])]]
IsSuffixOf(x, y) == Len(x) <= Len(y) /\ SubSeq(y, Len(y) - Len(x) + 1, Len(y)) = x
SharedLabels(x, y) ==
    CHOOSE k \in 0 .. Min(Len(x), Len(y)) :
        /\ \A i \in 0 .. k - 1 : x[Len(x) - i] = y[Len(y) - i]
        /\ (k < Min(Len(x), Len(y)) => x[Len(x) - k] # y[Len(y) - k])

(* C11: a.get_relation(b) returns Equal with order 0 and all labels common *)
(* iff a == b, SuperDomain with order < 0 iff a's labels are a proper      *)
(* suffix of b's, SubDomain with order > 0 iff b's labels are a proper     *)
(* suffix of a's, and otherwise CommonAncestor with the number of matching *)
(* root-side labels, which is at least 1; never None.                      *)
C11_RelationClassification ==
    pc \in {"related", "done"} =>
        LET la == FoldedLabels(name_a)
            lb == FoldedLabels(name_b)
            r == ret.ab
        IN /\ r.kind = "Ok"
           /\ r.relation # "None"
           /\ (r.relation = "Equal") <=> Name_eq(name_a, name_b)
           /\ (r.relation = "Equal") <=> (la = lb)
           /\ (r.relation = "SuperDomain") <=> (la # lb /\ IsSuffixOf(la, lb))
           /\ (r.relation = "SubDomain") <=> (la # lb /\ IsSuffixOf(lb, la))
           /\ r.relation = "Equal" => (r.order = 0 /\ r.common_label_count = name_a.label_count)
           /\ r.relation = "SuperDomain" =>
                 (r.order < 0 /\ r.common_label_count = name_a.label_count)
           /\ r.relation = "SubDomain" =>
                 (r.order > 0 /\ r.common_label_count = name_b.label_count)
           /\ r.relation = "CommonAncestor" =>
                 (r.common_label_count = SharedLabels(la, lb) /\ r.common_label_count >= 1)

----------------------------------------------------------------------------
(* The non-root labels of a list of names, in order *)
RECURSIVE LabelsOfAll(_)
LabelsOfAll(names) ==
    IF names = <<>> THEN <<>> ELSE NameLabels(Head(names)) \o LabelsOfAll(Tail(names))
RECURSIVE RawWithoutRoots(_)
RawWithoutRoots(names) ==
    IF names = <<>> THEN <<>>
    ELSE SubSeq(Head(names).raw, 1, Len(Head(names).raw) - 1) \o RawWithoutRoots(Tail(names))
RECURSIVE SumOver(_, _)
SumOver(names, field) ==
    IF names = <<>> THEN 0 ELSE Head(names)[field] + SumOver(Tail(names), field)
WithinLimits(names) ==
    /\ SumOver(names, "length") - (Len(names) - 1) <= MAX_WIRE_LEN
    /\ SumOver(names, "label_count") - (Len(names) - 1) <= MAX_LABEL_COUNT

(* C12: for k >= 1 suffixes and a combined size within the limits,         *)
(* concat_all returns Ok(n) where n.raw is the raw of self and of every    *)
(* suffix without their final zeros, then one zero; n.label_count is the   *)
(* sum of the label counts minus k; and n.offsets are the start indices of *)
(* the labels, which are self's and the suffixes' non-root labels in order *)
(* and then the root.                                                      *)
C12_ConcatContent ==
    (pc = "done" /\ call.op = "concat_all" /\ Len(call.args) >= 1
        /\ WithinLimits(<<name_a>> \o call.args)) =>
        LET all == <<name_a>> \o call.args
        IN /\ ret.kind = "Ok"
           /\ ret.name.raw = Append(RawWithoutRoots(all), 0)
           /\ ret.name.label_count = SumOver(all, "label_count") - Len(call.args)
           /\ ret.name.length = Len(ret.name.raw)
           /\ ret.name = MkName(LabelsOfAll(all))

C12_ConcatTwoSuffixes ==
    /\ pc = "done" /\ call.op = "concat_all" /\ Len(call.args) = 2
    /\ name_a.label_count > 1
    /\ \A i \in 1 .. 2 : call.args[i].label_count > 1
    /\ ret.kind = "Ok" /\ ret.name.label_count = name_a.label_count + 2

----------------------------------------------------------------------------
(* C13: split(start_label, count) returns InvalidLabelIndex when           *)
(* start_label >= label_count; otherwise count is clamped and the result   *)
(* is the name of labels start_label .. start_label+count-1 with their     *)
(* bytes unchanged, offsets rebased to 0 and exactly one root label at the *)
(* end; so split(s, c) with s + c = label_count - 1 returns the same name  *)
(* as split(s, c + 1).                                                     *)
C13_SplitContent ==
    (pc = "done" /\ call.op = "split") =>
        LET start_label == call.args[1]
            count == call.args[2]
            last == Min(start_label + count, name_a.label_count - 1)
        IN IF start_label >= name_a.label_count
           THEN ret.kind = "Err" /\ ret.err = "InvalidLabelIndex"
           ELSE /\ ret.kind = "Ok"
                /\ ret.name = MkName(SubSeq(NameLabels(name_a), start_label + 1, last))
                /\ start_label + count = name_a.label_count - 1 =>
                      ret = split(name_a, start_label, count + 1)

C13_SplitInnerLabels ==
    /\ pc = "done" /\ call.op = "split" /\ ret.kind = "Ok"
    /\ call.args[1] >= 1 /\ call.args[2] >= 1
    /\ call.args[1] + call.args[2] = name_a.label_count - 1
    /\ ret.name.label_count = call.args[2] + 1

----------------------------------------------------------------------------
(* C14: for k < label_count, strip_left(k), split(k, label_count - k) and  *)
(* parent(k) return names with identical raw, offsets, length and          *)
(* label_count; for every level >= label_count, also above it,             *)
(* parent(level) returns Err(InvalidLabelIndex).                           *)
C14_AncestorOperationsAgree ==
    (pc = "done" /\ call.op = "parent") =>
        LET level == call.args[1]
        IN IF level < name_a.label_count
           THEN /\ ret.kind = "Ok"
                /\ ret = strip_left(name_a, level)
                /\ ret = split(name_a, level, name_a.label_count - level)
           ELSE ret.kind = "Err" /\ ret.err = "InvalidLabelIndex"

----------------------------------------------------------------------------
(* C15: for k < label_count, to_ancestor(k) of a clone of n has the same   *)
(* raw, offsets, length and label_count as n.strip_left(k), and            *)
(* to_child(k) of a clone the same as n.strip_right(k).                    *)
C15_DestructiveStripsAgree ==
    /\ (pc = "done" /\ call.op = "to_ancestor" /\ call.args[1] < name_a.label_count) =>
          (ret.kind = "Ok" /\ ret = strip_left(name_a, call.args[1]))
    /\ (pc = "done" /\ call.op = "to_child" /\ call.args[1] < name_a.label_count) =>
          (ret.kind = "Ok" /\ ret = strip_right(name_a, call.args[1]))

----------------------------------------------------------------------------
(* C16: n.reverse() has n's length and label_count, its non-root labels    *)
(* are n's non-root labels in reverse order with every byte unchanged, its *)
(* last label is the root, its offsets are the start indices of its        *)
(* labels, and reversing it again gives n's raw and offsets back.          *)
ReverseSeq(s) == [i \in 1 .. Len(s) |-> s[Len(s) + 1 - i]]

C16_ReverseInvolution ==
    (pc = "done" /\ call.op = "reverse") =>
        /\ ret.kind = "Ok"
        /\ ret.name.length = name_a.length
        /\ ret.name.label_count = name_a.label_count
        /\ NameLabels(ret.name) = ReverseSeq(NameLabels(name_a))
        /\ Last(LabelsOf(ret.name)) = <<>>
        /\ At(ret.name.raw, Last(ret.name.offsets)) = 0
        /\ Len(ret.name.raw) = ret.name.length
        /\ ret.name.offsets = OffsetsOf(NameLabels(ret.name), 0)
        /\ reverse(ret.name).raw = name_a.raw
        /\ reverse(ret.name).offsets = name_a.offsets

C16_ReversedDistinctLabels ==
    /\ pc = "done" /\ call.op = "reverse" /\ ret.kind = "Ok"
    /\ name_a.label_count >= 3
    /\ ret.name.raw # name_a.raw
    /\ ret.name.offsets # name_a.offsets

----------------------------------------------------------------------------
(* C17: for a text without backslashes, made of non-empty labels of at     *)
(* most 63 bytes separated by single periods, within 255 wire bytes,       *)
(* Name::new returns the name whose raw is each label's length octet and   *)
(* bytes (case kept) followed by a zero octet and whose offsets are the    *)
(* indices of the length octets, the same with and without the trailing    *)
(* period; "." and "@" give the root; an empty label between two periods   *)
(* gives DuplicatePeriod, a leading period followed by more input          *)
(* NoneTerminateLabel, a label longer than 63 bytes TooLongLabel, and the  *)
(* empty string InCompleteName.                                            *)
NoBackslash(t) == \A i \in 1 .. Len(t) : t[i] # CH_BACKSLASH
HasEmptyLabel(t) == \E i \in 1 .. Len(t) - 1 : t[i] = CH_DOT /\ t[i + 1] = CH_DOT
HasOverlongLabel(t) ==
    \E i \in 1 .. Len(t) - MAX_LABEL_LEN : \A j \in i .. i + MAX_LABEL_LEN : t[j] # CH_DOT
EscapeFree(t) ==
    /\ t # <<>> /\ t # <<CH_AT>> /\ t[1] # CH_DOT
    /\ NoBackslash(t) /\ ~HasEmptyLabel(t) /\ ~HasOverlongLabel(t)

(* The labels of an escape-free text: the maximal runs of bytes other than *)
(* the period, in order                                                    *)
TextLabels(t) ==
    LET starts == {i \in 1 .. Len(t) : t[i] # CH_DOT /\ (i = 1 \/ t[i - 1] = CH_DOT)}
        nth(k) == CHOOSE b \in starts : Cardinality({x \in starts : x < b}) = k - 1
        endOf(b) == CHOOSE e \in b .. Len(t) :
                        /\ e = Len(t) \/ t[e + 1] = CH_DOT
                        /\ \A m \in b .. e : t[m] # CH_DOT
    IN [k \in 1 .. Cardinality(starts) |-> SubSeq(t, nth(k), endOf(nth(k)))]

TogglePeriod(t) == IF Last(t) = CH_DOT THEN SubSeq(t, 1, Len(t) - 1) ELSE Append(t, CH_DOT)

C17_EscapeFreeParsing ==
    pc = "done" =>
        /\ (EscapeFree(text) /\ WireSizeOf(text) <= MAX_WIRE_LEN) =>
              /\ ret = Ok(MkName(TextLabels(text)))
              /\ (Len(text) <= MaxTextLen /\ EscapeFree(TogglePeriod(text))) =>
                    Name_new(TogglePeriod(text)) = ret
        /\ text \in {<<CH_DOT>>, <<CH_AT>>} => ret = Ok(root)
        /\ (/\ text # <<>> /\ text[1] # CH_DOT /\ NoBackslash(text)
            /\ HasEmptyLabel(text) /\ ~HasOverlongLabel(text)
            /\ WireSizeOf(text) <= MAX_WIRE_LEN) =>
              ret = Err("DuplicatePeriod")
        /\ (Len(text) > 1 /\ text[1] = CH_DOT) => ret = Err("NoneTerminateLabel")
        /\ (/\ text # <<>> /\ text[1] # CH_DOT /\ NoBackslash(text)
            /\ ~HasEmptyLabel(text) /\ HasOverlongLabel(text)
            /\ WireSizeOf(text) <= MAX_WIRE_LEN) =>
              ret = Err("TooLongLabel")
        /\ text = <<>> => ret = Err("InCompleteName")

(* A name of exactly 255 wire bytes parsed from a text without the         *)
(* trailing period, its last label closed by the exit code                 *)
C17_FullLengthUnterminated ==
    /\ pc = "done" /\ EscapeFree(text) /\ Last(text) # CH_DOT
    /\ WireSizeOf(text) = MAX_WIRE_LEN
    /\ ret.kind = "Ok" /\ ret.name.label_count >= 5

----------------------------------------------------------------------------
(* C18: when from_wire comes to the end of the buffer before a terminating *)
(* zero label (at a label boundary, inside a label, between the two bytes  *)
(* of a pointer, or started at the end of the buffer), the error returned  *)
(* is InCompleteWire.                                                      *)
BufferExhausted ==
    /\ fw.ctl = "break" /\ ~fw.done
    /\ ~(fw.current < Len(inbuf))

C18_ExhaustionIsInCompleteWire ==
    (pc = "done" /\ BufferExhausted) => ret = Err("InCompleteWire")

----------------------------------------------------------------------------
(* C19: when the parser has read a backslash and two decimal digits inside *)
(* a label and reads the third digit, it appends to the label one byte     *)
(* whose value is the decimal number DDD (at most 255) and goes on in      *)
(* Ordinary state; a number above 255, or a non-digit as second or third   *)
(* character, gives InvalidDecimalFormat.                                  *)
ReadsInEscdecimal ==
    /\ pc = "parse" /\ sp.ctl = "cont" /\ sp.state = "Escdecimal" /\ sp.next_u8
    /\ sp.start < Len(text) /\ Len(sp.data) < MAX_WIRE_LEN

DecimalOf(d1, d2, d3) == 100 * (d1 - CH_ZERO) + 10 * (d2 - CH_ZERO) + (d3 - CH_ZERO)

C19_DecimalEscape ==
    [][ReadsInEscdecimal =>
          LET c == At(text, sp.start)
              DDD == DecimalOf(At(text, sp.start - 2), At(text, sp.start - 1), c)
          IN IF ~is_digit(c) \/ (sp.digits = 2 /\ DDD > 255)
             THEN sp'.ctl = "ret" /\ sp'.err = "InvalidDecimalFormat"
             ELSE (sp.digits = 2 /\ sp.count < MAX_LABEL_LEN) =>
                     /\ sp'.data = Append(sp.data, DDD)
                     /\ sp'.count = sp.count + 1
                     /\ sp'.state = "Ordinary" /\ sp'.ctl = "cont"]_vars

----------------------------------------------------------------------------
(* from_wire is one sequential call: once entered, its loop and the code   *)
(* after it run to the end, so every enabled step is eventually taken.     *)
SpecWireFair == SpecWire /\ WF_vars(NextWire)

(* C20: from_wire returns Ok or Err after finitely many steps on every     *)
(* buffer and every start position: every iteration that goes on either    *)
(* follows a pointer to a target strictly below the start position and     *)
(* every target followed before, or advances by one byte of the buffer.    *)
FollowsPointer ==
    /\ fw.state = "NewCurrent" /\ fw'.state = "Start"
    /\ fw'.current < fw.biggest_pointer
    /\ fw'.biggest_pointer = fw'.current
    /\ fw'.bufpos = fw'.current

ConsumesByte ==
    /\ fw'.current = fw.current + 1
    /\ fw'.current <= Len(inbuf)
    /\ fw'.biggest_pointer = fw.biggest_pointer
    /\ fw'.bufpos = fw'.current

C20_FromWireTerminates ==
    /\ [][(pc = "wire" /\ fw.ctl = "cont" /\ fw'.ctl = "cont") =>
             (FollowsPointer \/ ConsumesByte)]_vars
    /\ <>(pc = "done" /\ ret.kind \in {"Ok", "Err"})

C20_ReturnedThroughPointer ==
    /\ pc = "done" /\ ret.kind = "Ok"
    /\ Len(ptrs) >= 1 /\ ret.name.label_count >= 2

----------------------------------------------------------------------------
(* C21: a successful from_wire started at position p returns the labels    *)
(* met in order while following the pointers, bytes copied verbatim,       *)
(* offsets the starts of the labels, a root label last; it leaves the      *)
(* buffer at p plus the bytes read at the original location, up to and     *)
(* including the terminating zero or the two bytes of the first pointer.   *)
(* An uncompressed name written by to_wire (its raw bytes) decodes to the  *)
(* identical name and advances the position by the name's length.          *)
RECURSIVE WireLabels(_, _)
WireLabels(b, pos) ==
    LET c == At(b, pos)
    IN IF c = 0 THEN <<>>
       ELSE IF c <= MAX_LABEL_LEN
            THEN <<SubSeq(b, pos + 2, pos + 1 + c)>> \o WireLabels(b, pos + 1 + c)
            ELSE WireLabels(b, (c % 64) * 256 + At(b, pos + 1))

RECURSIVE ReadInPlace(_, _)
ReadInPlace(b, pos) ==
    LET c == At(b, pos)
    IN IF c = 0 THEN 1
       ELSE IF c <= MAX_LABEL_LEN THEN c + 1 + ReadInPlace(b, pos + 1 + c)
       ELSE 2

(* r is the raw of a name: labels of 1 to 63 bytes, then one zero octet *)
RECURSIVE IsNameRaw(_, _)
IsNameRaw(r, pos) ==
    /\ pos < Len(r)
    /\ LET c == At(r, pos)
       IN IF c = 0 THEN pos = Len(r) - 1
          ELSE c <= MAX_LABEL_LEN /\ IsNameRaw(r, pos + 1 + c)

(* The names whose to_wire image lies in buffer b at position p *)
WrittenAt(b, p) ==
    {MkName(WireLabels(r, 0)) :
        r \in {x \in {SubSeq(b, p + 1, p + k) : k \in 1 .. Min(Len(b) - p, MAX_WIRE_LEN)} :
                  IsNameRaw(x, 0)}}

C21_FromWirePostcondition ==
    pc = "done" =>
        /\ ret.kind = "Ok" =>
              /\ ret.name = MkName(WireLabels(inbuf, fw.pos_beg))
              /\ fw.bufpos = fw.pos_beg + ReadInPlace(inbuf, fw.pos_beg)
        /\ \A n \in WrittenAt(inbuf, fw.pos_beg) :
              /\ ret = Ok(n)
              /\ fw.bufpos = fw.pos_beg + n.length

C21_LabelThroughPointer ==
    /\ pc = "done" /\ ret.kind = "Ok" /\ Len(ptrs) >= 1
    /\ ret.name.label_count >= 2
    /\ fw.bufpos = fw.pos_beg + 2 /\ fw.bufpos < Len(inbuf)

----------------------------------------------------------------------------
(* C22: in compare, for the first pair of labels at the same distance from *)
(* the root that differ, the lengths decide before the bytes: when the two *)
(* labels have different lengths, the sign of order is the sign of (length *)
(* of this label - length of the other label), whatever their bytes are.   *)
Sign(x) == IF x > 0 THEN 1 ELSE IF x < 0 THEN -1 ELSE 0

C22_LengthComparedFirst ==
    pc \in {"related", "done"} =>
        LET la == FoldedLabels(name_a)
            lb == FoldedLabels(name_b)
            k == SharedLabels(la, lb)
        IN (k < Min(Len(la), Len(lb)) /\ Len(la[Len(la) - k]) # Len(lb[Len(lb) - k])) =>
              /\ ret.ab.kind = "Ok"
              /\ Sign(ret.ab.order) = Sign(Len(la[Len(la) - k]) - Len(lb[Len(lb) - k]))

----------------------------------------------------------------------------
(* C23: whenever self.length plus the sum of (suffix.length - 1) exceeds   *)
(* 255, concat_all returns TooLongName; whenever the length is within 255  *)
(* and the label count exceeds 128 it returns TooLongLabel; and it never   *)
(* returns Ok with a length or label_count other than the true sums.       *)
C23_ConcatLimits ==
    (pc = "done" /\ call.op = "concat_all") =>
        LET all == <<name_a>> \o call.args
            true_length == SumOver(all, "length") - Len(call.args)
            true_label_count == SumOver(all, "label_count") - Len(call.args)
        IN /\ true_length > MAX_WIRE_LEN => ret = Err("TooLongName")
           /\ (true_length <= MAX_WIRE_LEN /\ true_label_count > MAX_LABEL_COUNT) =>
                 ret = Err("TooLongLabel")
           /\ ret.kind = "Ok" =>
                 /\ ret.name.length = true_length
                 /\ ret.name.label_count = true_label_count

----------------------------------------------------------------------------
(* A LabelSlice is made from name_a, stripped from both ends any number of *)
(* times and compared with the view of name_b.  A call whose assert fails  *)
(* ends the run.                                                           *)
FullName ==
    MkName(<<LongLabel, LongLabel, LongLabel, SubSeq(LongLabel, 1, MAX_LABEL_LEN - 2)>>)
SliceNames == NamesOver(AlphaCase, MaxNameBytes) \cup BigNames \cup {FullName}
OtherNames ==
    {root, MkName(<<<<97>>>>), MkName(<<<<65>>>>), MkName(<<<<66>>>>),
     MkName(<<<<97>>, <<65>>>>), MkName(<<<<98>>, <<65>>>>)}
SliceFrame == <<overflow_checks, text, name_a, name_b, name_c, sp, inbuf, fw, ptrs, msg, wire, seq>>

InitSlice ==
    /\ pc = "view"
    /\ overflow_checks \in BOOLEAN
    /\ name_a \in SliceNames /\ name_b \in OtherNames /\ name_c = IdleName
    /\ slice = from_name(name_a)
    /\ seq = NoSeq
    /\ call = NoCall /\ msg = <<>> /\ wire = <<>>
    /\ text = <<>> /\ sp = IdleParse
    /\ IdleWire
    /\ ret = Val(<<>>)

Stripped(op, index, result) ==
    /\ pc = "view"
    /\ call' = [op |-> op, args |-> <<index>>]
    /\ slice' = IF result.kind = "Ok" THEN result.val ELSE slice
    /\ ret' = IF result.kind = "Ok" THEN Val(<<>>) ELSE NoVal
    /\ pc' = IF result.kind = "Ok" THEN "view" ELSE "done"
    /\ UNCHANGED SliceFrame

SliceStripLeft ==
    \E index \in LabelArgs : Stripped("strip_left", index, LabelSlice_strip_left(slice, index))

SliceStripRight ==
    \E index \in LabelArgs : Stripped("strip_right", index, LabelSlice_strip_right(slice, index))

SliceEquals ==
    \E case_sensitive \in BOOLEAN :
        /\ pc = "view"
        /\ call' = [op |-> "equals", args |-> <<case_sensitive>>]
        /\ ret' = equals(slice, from_name(name_b), case_sensitive, overflow_checks)
        /\ pc' = "compared"
        /\ UNCHANGED <<slice, SliceFrame>>

NextSlice == SliceStripLeft \/ SliceStripRight \/ SliceEquals

SpecSlice == InitSlice /\ [][NextSlice]_vars

(* C24: after any sequence of strip_left and strip_right calls whose       *)
(* precondition holds, 0 <= first_label <= last_label <= label_count - 1;  *)
(* each strip_left(i) adds i to first_label and each strip_right(j) takes  *)
(* j from last_label, so get_label_count is the name's label count minus   *)
(* the labels stripped, at least 1; get_offsets is                         *)
(* offsets[first_label..=last_label] and get_data is raw from              *)
(* offsets[first_label] up to offsets[last_label] + raw[offsets[last_label]] *)
(* + 1; the backing name is never modified.                                *)
ViewData(n, first, last) ==
    SubSeq(n.raw, At(n.offsets, first) + 1,
           At(n.offsets, last) + At(n.raw, At(n.offsets, last)) + 1)

C24_ViewRange ==
    /\ [](pc \in {"view", "compared"} =>
            /\ 0 <= slice.first_label /\ slice.first_label <= slice.last_label
            /\ slice.last_label <= name_a.label_count - 1
            /\ get_label_count(slice) >= 1
            /\ get_offsets(slice) =
                  Val(SubSeq(name_a.offsets, slice.first_label + 1, slice.last_label + 1))
            /\ get_data(slice, overflow_checks) =
                  Val(ViewData(name_a, slice.first_label, slice.last_label))
            /\ slice.data = name_a.raw /\ slice.offsets = name_a.offsets)
    /\ [][(pc = "view" /\ pc' = "view") =>
             /\ call'.op = "strip_left" =>
                   /\ slice'.first_label = slice.first_label + call'.args[1]
                   /\ slice'.last_label = slice.last_label
             /\ call'.op = "strip_right" =>
                   /\ slice'.last_label = slice.last_label - call'.args[1]
                   /\ slice'.first_label = slice.first_label
             /\ get_label_count(slice') = get_label_count(slice) - call'.args[1]
             /\ name_a' = name_a]_vars

C24_StrippedBothEnds ==
    /\ pc = "view" /\ slice.first_label >= 1
    /\ slice.last_label < name_a.label_count - 1
    /\ slice.last_label > slice.first_label

(* C25: equals with case_sensitive = true is true iff the two views' data  *)
(* are identical; with case_sensitive = false it is true iff the data have *)
(* the same length and are equal byte for byte after ASCII case folding.   *)
C25_EqualsContract ==
    pc = "compared" =>
        LET data == ViewData(name_a, slice.first_label, slice.last_label)
            other_data == name_b.raw
        IN /\ ret.kind = "Ok"
           /\ call.args[1] => (ret.val <=> data = other_data)
           /\ ~call.args[1] =>
                 (ret.val <=> /\ Len(data) = Len(other_data)
                              /\ \A i \in 1 .. Len(data) : FoldByte(data[i]) = FoldByte(other_data[i]))

----------------------------------------------------------------------------
(* A LabelSequence is taken from a view of name_a (stripped by at most one *)
(* label at either end), split at most once, and then concatenated with    *)
(* sequences taken from name_b and name_c, with or without their roots.    *)
SeqNames == NamesOver(AlphaCase, MaxNameBytes) \cup BigNames \cup {FullName}
SeqSuffixNames == {MkName(<<<<98>>>>), MkName(<<LongLabel, LongLabel>>)}
SeqLastNames == {root, MkName(<<<<99>>>>)}
SequenceFrame == <<overflow_checks, text, name_a, name_b, name_c, sp, inbuf, fw, ptrs, msg, wire, slice>>

SeqOfName(n, without_root, checks) ==
    into_label_sequence(
        [from_name(n) EXCEPT !.last_label = IF without_root THEN @ - 1 ELSE @], checks)

InitSequence ==
    /\ pc = "seq"
    /\ overflow_checks \in BOOLEAN
    /\ name_a \in SeqNames /\ name_b \in SeqSuffixNames /\ name_c \in SeqLastNames
    /\ \E left \in 0 .. 1, right \in 0 .. 1 :
          /\ left + right < name_a.label_count
          /\ slice = [from_name(name_a) EXCEPT !.first_label = left,
                                               !.last_label = @ - right]
    /\ seq = into_label_sequence(slice, overflow_checks)
    /\ call = NoCall /\ msg = <<>> /\ wire = <<>>
    /\ text = <<>> /\ sp = IdleParse
    /\ IdleWire
    /\ ret = SeqOk(NoSeq, seq)

SeqSplit ==
    \E start_label \in LabelArgs, label_count \in LabelArgs :
        /\ pc = "seq"
        /\ call' = [op |-> "split", args |-> <<start_label, label_count>>]
        /\ ret' = LabelSequence_split(seq, start_label, label_count, overflow_checks)
        /\ seq' = ret'.rest
        /\ pc' = IF ret'.kind = "Panic" THEN "done" ELSE "split"
        /\ UNCHANGED SequenceFrame

SeqSuffixLists ==
    {<<>>,
     <<SeqOfName(name_b, TRUE, overflow_checks)>>,
     <<SeqOfName(name_b, FALSE, overflow_checks)>>,
     <<SeqOfName(name_c, FALSE, overflow_checks)>>,
     <<SeqOfName(name_b, TRUE, overflow_checks), SeqOfName(name_c, FALSE, overflow_checks)>>,
     <<SeqOfName(name_b, FALSE, overflow_checks), SeqOfName(name_c, FALSE, overflow_checks)>>}

SeqConcatAll ==
    \E suffixes \in SeqSuffixLists :
        /\ pc \in {"seq", "split"}
        /\ call' = [op |-> "concat_all", args |-> suffixes]
        /\ LET r == LabelSequence_concat_all(seq, suffixes, overflow_checks)
           IN ret' = [kind |-> r.kind, err |-> r.err, seq |-> NoSeq, rest |-> seq,
                      name |-> r.name]
        /\ pc' = "done"
        /\ UNCHANGED <<seq, SequenceFrame>>

NextSequence == SeqSplit \/ SeqConcatAll

SpecSequence == InitSequence /\ [][NextSequence]_vars

(* The offsets of q are the start indices of its labels in its own data,   *)
(* and the labels of such a sequence                                       *)
WellFormedSeq(q) ==
    IF q.offsets = <<>> THEN q.data = <<>>
    ELSE /\ q.offsets[1] = 0
         /\ \A i \in 1 .. Len(q.offsets) :
               /\ q.offsets[i] >= 0 /\ q.offsets[i] < Len(q.data)
               /\ q.offsets[i] + At(q.data, q.offsets[i]) + 1 =
                     (IF i < Len(q.offsets) THEN q.offsets[i + 1] ELSE Len(q.data))
SeqLabels(q) ==
    [i \in 1 .. Len(q.offsets) |->
        SubSeq(q.data, q.offsets[i] + 2, q.offsets[i] + 1 + At(q.data, q.offsets[i]))]

(* C26: split(start, count) on a sequence whose offsets are the starts of  *)
(* its labels returns InvalidLabelIndex and leaves self unchanged when     *)
(* start >= label_count or count = 0; otherwise, count clamped, it returns *)
(* exactly labels start .. start+count-1 in order and leaves the other     *)
(* labels in their order; in both sequences the offsets are the starts of  *)
(* the labels in that sequence's data; data lengths and label counts add   *)
(* up to the original's.                                                   *)
C26_SequenceSplit ==
    [][(pc = "seq" /\ call'.op = "split" /\ WellFormedSeq(seq)) =>
          LET start == call'.args[1]
              count == Min(call'.args[2], Len(seq.offsets) - start)
              labels == SeqLabels(seq)
          IN IF start >= Len(seq.offsets) \/ call'.args[2] = 0
             THEN ret'.kind = "Err" /\ ret'.err = "InvalidLabelIndex" /\ seq' = seq
             ELSE /\ ret'.kind = "Ok"
                  /\ WellFormedSeq(ret'.seq) /\ WellFormedSeq(seq')
                  /\ SeqLabels(ret'.seq) = SubSeq(labels, start + 1, start + count)
                  /\ SeqLabels(seq') =
                        SubSeq(labels, 1, start) \o SubSeq(labels, start + count + 1, Len(labels))
                  /\ Len(ret'.seq.data) + Len(seq'.data) = Len(seq.data)
                  /\ Len(ret'.seq.offsets) + Len(seq'.offsets) = Len(seq.offsets)]_vars

C26_SplitFromTheMiddle ==
    /\ pc = "split" /\ call.op = "split" /\ ret.kind = "Ok"
    /\ call.args[1] >= 1
    /\ Len(ret.seq.offsets) >= 1
    /\ Len(seq.offsets) > call.args[1]

----------------------------------------------------------------------------
(* C27: for sequences self, s1..sk taken from valid names, each possibly   *)
(* still ending in its root label, self.concat_all([s1..sk]) returns the   *)
(* name whose raw is self's data without a terminating zero, then each     *)
(* non-final suffix's data without its terminating zero, then the final    *)
(* suffix's data, with offsets the start indices of the labels; the result *)
(* satisfies the Name invariants; with no suffix it is the name of self.   *)
EndsInRoot(q) == q.offsets # <<>> /\ At(q.data, Last(q.offsets)) = 0
WithoutRoot(q) == IF EndsInRoot(q) THEN SubSeq(q.data, 1, Len(q.data) - 1) ELSE q.data
RECURSIVE RecipeRaw(_)
RecipeRaw(seqs) ==
    IF Len(seqs) = 1 THEN seqs[1].data
    ELSE WithoutRoot(Head(seqs)) \o RecipeRaw(Tail(seqs))

C27_SequenceConcat ==
    (pc = "done" /\ call.op = "concat_all") =>
        LET all == <<seq>> \o call.args
            raw == RecipeRaw(all)
        IN (/\ \A i \in 1 .. Len(all) : WellFormedSeq(all[i]) /\ all[i].offsets # <<>>
            /\ EndsInRoot(all[Len(all)])
            /\ Len(raw) <= MAX_WIRE_LEN) =>
              /\ ret.kind = "Ok"
              /\ ret.name.raw = raw
              /\ ret.name = MkName(WireLabels(raw, 0))
              /\ NameInv(ret.name)
              /\ call.args = <<>> => ret.name = from_raw(seq.data, seq.offsets)

----------------------------------------------------------------------------
(* Section::from_wire(buf, rr_count) on a buffer holding wire records;     *)
(* rr_count may be smaller or larger than the number of records there      *)
MaxRecords == 3
WireRecords ==
    {[name |-> n, typ |-> t, class |-> c, ttl |-> 3600, rdlen |-> Len(d), rdata |-> d] :
        n \in {MkName(<<<<97>>>>), MkName(<<<<65>>>>)}, t \in {TYPE_A, TYPE_TXT},
        c \in {CLASS_IN, CLASS_CH}, d \in {<<>>, <<1>>, <<2, 2>>}}
SectionFrame ==
    <<overflow_checks, text, name_a, name_b, name_c, sp, inbuf, fw, ptrs, msg, wire, slice, seq>>

InitSection ==
    /\ pc = "buffer"
    /\ IdleViews
    /\ overflow_checks = FALSE
    /\ \E k \in 0 .. MaxRecords : \E rrs \in [1 .. k -> WireRecords] :
          wire = [header |-> NoMessage.header, question |-> NoMessage.question, rrs |-> rrs]
    /\ msg = <<>> /\ call = NoCall
    /\ text = <<>> /\ name_a = IdleName /\ name_b = IdleName /\ name_c = IdleName
    /\ sp = IdleParse
    /\ IdleWire
    /\ ret = [kind |-> "None", err |-> "", section |-> None, pos |-> 0]

CallSectionFromWire ==
    \E rr_count \in 0 .. MaxRecords + 1 :
        /\ pc = "buffer"
        /\ call' = [op |-> "from_wire", args |-> <<rr_count>>]
        /\ ret' = Section_from_wire(wire.rrs, 0, rr_count)
        /\ pc' = "done"
        /\ UNCHANGED SectionFrame

NextSection == CallSectionFromWire

SpecSection == InitSection /\ [][NextSection]_vars

(* C28: Section::from_wire with n = 0 returns the absent section; with     *)
(* n >= 1 it decodes n records in order into RRsets whose (rrset, rdata)   *)
(* pairs, listed in order, are the n records; two consecutive records are  *)
(* in the same RRset iff they have the same name (case-insensitive), type  *)
(* and class, records with the same key that are not adjacent are in       *)
(* separate RRsets; and the decode ends in a value or an error, never in   *)
(* a panic.                                                                *)
SameKey(x, y) ==
    /\ FoldedLabels(x.name) = FoldedLabels(y.name)
    /\ x.typ = y.typ /\ x.class = y.class

RECURSIVE GroupAdjacent(_, _, _)
GroupAdjacent(rrs, groups, last) ==
    IF rrs = <<>> THEN Append(groups, last)
    ELSE IF SameKey(Head(rrs), last)
         THEN GroupAdjacent(Tail(rrs), groups,
                            [last EXCEPT !.rdatas = Append(@, Head(rrs).rdata)])
         ELSE GroupAdjacent(Tail(rrs), Append(groups, last),
                            [name |-> Head(rrs).name, typ |-> Head(rrs).typ,
                             class |-> Head(rrs).class, ttl |-> Head(rrs).ttl,
                             rdatas |-> <<Head(rrs).rdata>>])

ExpectedRRsets(rrs) ==
    GroupAdjacent(Tail(rrs), <<>>,
                  [name |-> rrs[1].name, typ |-> rrs[1].typ, class |-> rrs[1].class,
                   ttl |-> rrs[1].ttl, rdatas |-> <<rrs[1].rdata>>])

C28_SectionGrouping ==
    (pc = "done" /\ call.op = "from_wire") =>
        LET n == call.args[1]
            rrs == SubSeq(wire.rrs, 1, n)
        IN /\ ret.kind \in {"Ok", "Err"}
           /\ n = 0 => (ret.kind = "Ok" /\ ret.section = None)
           /\ (n >= 1 /\ n <= Len(wire.rrs) /\ \A i \in 1 .. n : rrs[i].rdlen > 0) =>
                 /\ ret.kind = "Ok"
                 /\ ret.section = Some(ExpectedRRsets(rrs))
                 /\ ret.pos = n

----------------------------------------------------------------------------
(* C29: an RRset with N rdatas is rendered as exactly N records sharing    *)
(* its name, type, class and ttl, each with rdlen the number of rdata      *)
(* bytes written; and after recalculate_header, qd_count is 1 and          *)
(* an_count, ns_count and ar_count are the numbers of records that rend    *)
(* emits for Answer, Authority and Additional (ar_count one more when EDNS *)
(* is present), for every message, those holding an RRset with no rdata    *)
(* included.                                                               *)
RendersItsRdatas(rrset) ==
    LET rrs == RRset_rend(rrset)
    IN /\ Len(rrs) = Len(rrset.rdatas)
       /\ \A i \in 1 .. Len(rrs) :
            /\ rrs[i].name = rrset.name /\ rrs[i].typ = rrset.typ
            /\ rrs[i].class = rrset.class /\ rrs[i].ttl = rrset.ttl
            /\ rrs[i].rdata = rrset.rdatas[i] /\ rrs[i].rdlen = Len(rrs[i].rdata)

C29_HeaderCountsMatchEmitted ==
    pc = "rendered" =>
        /\ \A s \in 1 .. 3 : msg.sections[s].some =>
              \A k \in 1 .. Len(msg.sections[s].val) : RendersItsRdatas(msg.sections[s].val[k])
        /\ wire.header.qd_count = 1
        /\ wire.header.an_count = Len(Section_rend(msg.sections[1]))
        /\ wire.header.ns_count = Len(Section_rend(msg.sections[2]))
        /\ wire.header.ar_count = Len(Section_rend(msg.sections[3]))
                                  + (IF msg.edns.some THEN 1 ELSE 0)
        /\ Len(wire.rrs) = wire.header.an_count + wire.header.ns_count + wire.header.ar_count

----------------------------------------------------------------------------
(* The rdata decoders.  An InputBuffer is its bytes and its position;      *)
(* every read fails with InCompleteWire when fewer bytes than asked for    *)
(* remain.  A result carries the position left behind and the positions    *)
(* of the bytes that were read.                                            *)
RdOk(rdata, pos, reads) ==
    [kind |-> "Ok", err |-> "", rdata |-> rdata, pos |-> pos, reads |-> reads]
RdErr(e, reads) == [kind |-> "Err", err |-> e, rdata |-> <<>>, pos |-> 0, reads |-> reads]
RdPanic(w, reads) == [kind |-> "Panic", err |-> w, rdata |-> <<>>, pos |-> 0, reads |-> reads]
NoRdata == [kind |-> "None", err |-> "", rdata |-> <<>>, pos |-> 0, reads |-> {}]

(* Name::from_wire run to its end, name.rs:266-343 *)
RECURSIVE FwLoop(_, _, _)
FwLoop(b, f, reads) ==
    IF f.ctl # "cont" THEN [fw |-> f, reads |-> reads]
    ELSE FwLoop(b, FwIter(b, f),
                IF f.current < Len(b) /\ ~f.done /\ f.bufpos < Len(b)
                THEN reads \cup {f.bufpos} ELSE reads)

Name_from_wire(b, pos, reads) ==
    LET r == FwLoop(b, FwEnter(pos), reads)
        res == FwExit(r.fw)
    IN IF res.kind = "Ok" THEN RdOk(res.name, FwExitPosition(r.fw), r.reads)
       ELSE RdErr(res.err, r.reads)

(* InputBuffer::read_u16, big-endian *)
read_u16(b, pos, reads) ==
    IF pos + 2 > Len(b) THEN RdErr("InCompleteWire", reads)
    ELSE RdOk(At(b, pos) * 256 + At(b, pos + 1), pos + 2, reads \cup {pos, pos + 1})

(* NS, CName, PTR and DName::from_wire: the name at the position, _len is  *)
(* not used; rdata_ns.rs:14-16, rdata_cname.rs:14-16, rdata_ptr.rs:14-16,  *)
(* rdata_dname.rs:12-14                                                    *)
NS_from_wire(b, pos, len) == Name_from_wire(b, pos, {})
CName_from_wire(b, pos, len) == Name_from_wire(b, pos, {})
PTR_from_wire(b, pos, len) == Name_from_wire(b, pos, {})
DName_from_wire(b, pos, len) == Name_from_wire(b, pos, {})

(* MX::from_wire, rdata_mx.rs:15-19 *)
MX_from_wire(b, pos, len) ==
    LET preference == read_u16(b, pos, {})
    IN IF preference.kind # "Ok" THEN preference
       ELSE LET name == Name_from_wire(b, preference.pos, preference.reads)
            IN IF name.kind # "Ok" THEN name
               ELSE [name EXCEPT !.rdata = [preference |-> preference.rdata, name |-> @]]

(* NAPTR::from_wire, rdata_naptr.rs:18-31 *)
NAPTR_from_wire(b, pos, len) ==
    LET order == read_u16(b, pos, {})
        preference == read_u16(b, order.pos, order.reads)
        flags == read_u16(b, preference.pos, preference.reads)
        services == read_u16(b, flags.pos, flags.reads)
        replacement == Name_from_wire(b, services.pos, services.reads)
    IN IF order.kind # "Ok" THEN order
       ELSE IF preference.kind # "Ok" THEN preference
       ELSE IF flags.kind # "Ok" THEN flags
       ELSE IF services.kind # "Ok" THEN services
       ELSE IF replacement.kind # "Ok" THEN replacement
       ELSE [replacement EXCEPT !.rdata =
                [order |-> order.rdata, preference |-> preference.rdata,
                 flags |-> flags.rdata, services |-> services.rdata, replacement |-> @]]

(* TXT::from_wire, rdata_txt.rs:14-24: sl is a u8 and sl + 1 is computed   *)
(* in u8 before the cast to u16                                            *)
RECURSIVE TXT_loop(_, _, _, _, _, _, _)
TXT_loop(b, pos, len, read_len, data, reads, checks) ==
    IF ~(read_len < len) THEN RdOk(data, pos, reads)
    ELSE IF pos + 1 > Len(b) THEN RdErr("InCompleteWire", reads)
    ELSE LET sl == At(b, pos)
         IN IF pos + 1 + sl > Len(b) THEN RdErr("InCompleteWire", reads \cup {pos})
            ELSE IF sl + 1 > 255 /\ checks
                 THEN RdPanic("attempt to add with overflow", reads \cup (pos .. pos + sl))
            ELSE IF read_len + U8(sl + 1) > 65535 /\ checks
                 THEN RdPanic("attempt to add with overflow", reads \cup (pos .. pos + sl))
            ELSE TXT_loop(b, pos + 1 + sl, len, (read_len + U8(sl + 1)) % 65536,
                          Append(data, SubSeq(b, pos + 2, pos + 1 + sl)),
                          reads \cup (pos .. pos + sl), checks)

TXT_from_wire(b, pos, len, checks) == TXT_loop(b, pos, len, 0, <<>>, {}, checks)

RdataVariants == {"NS", "CName", "PTR", "DName", "MX", "NAPTR", "TXT"}
Variant_from_wire(variant, b, pos, len, checks) ==
    CASE variant = "NS" -> NS_from_wire(b, pos, len)
      [] variant = "CName" -> CName_from_wire(b, pos, len)
      [] variant = "PTR" -> PTR_from_wire(b, pos, len)
      [] variant = "DName" -> DName_from_wire(b, pos, len)
      [] variant = "MX" -> MX_from_wire(b, pos, len)
      [] variant = "NAPTR" -> NAPTR_from_wire(b, pos, len)
      [] variant = "TXT" -> TXT_from_wire(b, pos, len, checks)

(* A buffer positioned after the rdlen field of a record: the fixed fields *)
(* of an MX or a NAPTR or none, then a few bytes; and one character string *)
(* of the greatest length                                                  *)
MaxRdataBytes == 3
LongString == <<255>> \o [i \in 1 .. 255 |-> 1]
RdataBuffers ==
    {pre \o b : pre \in {<<>>, <<0, 10>>, <<0, 1, 0, 2, 0, 3, 0, 4>>},
                b \in StringsUpTo(AlphaWire, MaxRdataBytes)} \cup {LongString}
RdataFrame ==
    <<overflow_checks, text, name_a, name_b, name_c, sp, inbuf, fw, ptrs, msg, wire, slice, seq>>

InitRdata ==
    /\ pc = "rdata"
    /\ IdleViews
    /\ overflow_checks \in BOOLEAN
    /\ inbuf \in RdataBuffers
    /\ fw = FwEnter(0) /\ ptrs = <<>>
    /\ IdleCalls
    /\ text = <<>> /\ name_a = IdleName /\ name_b = IdleName /\ name_c = IdleName
    /\ sp = IdleParse
    /\ ret = NoRdata

(* RRset::from_wire hands the decoder the buffer and rdlen when rdlen > 0, *)
(* rrset.rs:46-50                                                          *)
CallRdataFromWire ==
    \E variant \in RdataVariants, start \in {0, 1}, rdlen \in 1 .. Len(inbuf) + 1 :
        /\ pc = "rdata"
        /\ start <= Len(inbuf)
        /\ call' = [op |-> variant, args |-> <<start, rdlen>>]
        /\ ret' = Variant_from_wire(variant, inbuf, start, rdlen, overflow_checks)
        /\ pc' = "done"
        /\ UNCHANGED RdataFrame

NextRdata == CallRdataFromWire

SpecRdata == InitRdata /\ [][NextRdata]_vars

(* C30: when a record with declared length rdlen is decoded, the rdata     *)
(* decoder (NS, CName, PTR, DName, MX, NAPTR, TXT) reads no byte at or     *)
(* beyond rdata start + rdlen, and when the number of bytes the variant    *)
(* consumes differs from rdlen the decode fails with RdataLenIsNotCorrect  *)
(* and returns no record.                                                  *)
C30_RdlenRespected ==
    (pc = "done" /\ call.op \in RdataVariants) =>
        LET start == call.args[1]
            rdlen == call.args[2]
        IN /\ \A p \in ret.reads : p < start + rdlen
           /\ ret.kind = "Ok" => ret.pos - start = rdlen

====
